---- MODULE Spec2Model ----
(***************************************************************************)
(* Model of scripts/fetch_538.py: process_nbaallelo_to_games, the          *)
(* transformation that pairs the two per-team rows of a game into one      *)
(* game record, and its helper extract_scores.                             *)
(*                                                                         *)
(* Representation.                                                         *)
(*  - A Python string is the sequence of its characters, each a            *)
(*    one-character TLA+ string: "L 7-9" is <<"L"," ","7","-","9">>.       *)
(*  - A missing cell (None / NaN, what pd.isna accepts) is NaN.            *)
(*  - An optional integer (a score or None) is <<>> for None and <<n>>     *)
(*    for n.                                                               *)
(*  - A date cell holds an ISO date string YYYY-MM-DD; it is kept as the   *)
(*    integer YYYYMMDD, whose order is the order of the strings.           *)
(*  - game_id cells are kept as integers, ordered as the id strings are.   *)
(*  - elo_i / elo_n are kept in tenths, forecast in hundredths.            *)
(***************************************************************************)
EXTENDS Integers, Sequences, FiniteSets, TLC

VARIABLES
    input,        \* the caller's data frame: the argument of the call
    df,           \* the local df, rebound to the sorted frame (line 104)
    keys,         \* group keys of df.groupby('game_id') not yet visited
    games,        \* the local list games (line 107)
    group,        \* the group of the current loop iteration
    home_row,     \* locals of the last valid group (lines 115-118)
    away_row,
    home_scores,  \* lines 131-132
    away_scores,
    pc,           \* "start" | "loop" | "done" | "raised"
    calls,        \* number of the current call of the function
    prev,         \* argument and outcome of the call before this one
    dir_exists,   \* RAW_DATA_DIR is a directory
    files,        \* the snapshot files of RAW_DATA_DIR and their content
    latest,       \* the target of latest_<dataset>.csv, per dataset
    MIN_ROW_COUNT,\* the module attribute of line 21, as it is now
    now,          \* datetime.now(), in seconds
    fetch,        \* the frame of fetch_and_save_csv
    main,         \* the frame of main
    finished,     \* how the last call from outside ended
    top,          \* calls made from outside so far
    WAREHOUSE,    \* load_duckdb.WAREHOUSE (line 19), as it is now
    latest_csv,   \* what latest_<table>.csv of RAW_DATA_DIR resolves to
    tables,       \* the tables raw.elo and raw.nbaallelo of the database
    load,         \* the frame of load_elo_data / load_nbaallelo_data
    conn,         \* how the last call of get_connection ended
    loads,        \* calls of load_duckdb's functions so far
    dag_run,      \* number of the DAG run
    ti,           \* the task instances of the run: state and try_number
    started,      \* the tasks of the run in the order of their first start
    export_files, \* the timestamped files of EXPORT_DIR
    export_latest,\* the target of latest_<export>.csv, per export
    exporter,     \* the frame of export_metrics.main
    pager         \* the frame of fetch_games

\* the state of load_duckdb
loader == <<WAREHOUSE, latest_csv, tables, load, conn, loads>>

\* the state of the DAG run, of export_metrics and of fetch_games
dagrun == <<dag_run, ti, started>>
exporting == <<export_files, export_latest, exporter>>
orchestration == <<dagrun, exporting, pager>>

\* the state of the steps of the pipeline that come after the fetch
pipeline == <<loader, orchestration>>

\* the state of process_nbaallelo_to_games and of its caller
reconciler == <<input, df, keys, games, group, home_row, away_row,
                home_scores, away_scores, pc, calls, prev>>

\* the state of the script: the directory, the module and its frames
script == <<dir_exists, files, latest, MIN_ROW_COUNT, now, fetch, main,
            finished, top>>

vars == <<input, df, keys, games, group, home_row, away_row,
          home_scores, away_scores, pc, calls, prev,
          dir_exists, files, latest, MIN_ROW_COUNT, now, fetch, main,
          finished, top,
          WAREHOUSE, latest_csv, tables, load, conn, loads,
          dag_run, ti, started, export_files, export_latest, exporter,
          pager>>

-----------------------------------------------------------------------------
(* Bounds of the model *)

MaxRows == 3

\* calls of the function in a row, and the rows of their frames
MaxCalls == 2
MaxCallRows == 2

\* calls of the script's functions from outside, and seconds of the clock
MaxTop == 2
MaxClock == 1

\* calls of load_duckdb's functions, and rows of a CSV file
MaxLoads == 2
MaxCsvRows == 2

\* runs of the DAG
MaxDagRuns == 2

\* runs of export_metrics.main
MaxExportRuns == 2

\* the largest total_pages the API reports, the page number at which the
\* model stops counting, and calls of fetch_games
MaxTotalPages == 2
MaxPage == 3
MaxPagerCalls == 2

-----------------------------------------------------------------------------
(* Values *)

NaN == <<"NaN">>
None == <<>>
Some(n) == <<n>>

pd_isna(x) == x = NaN

Digits == <<"0", "1", "2", "3", "4", "5", "6", "7", "8", "9">>

IsDigit(c) == \E i \in 1..10 : Digits[i] = c

DigitVal(c) == (CHOOSE i \in 1..10 : Digits[i] = c) - 1

\* Python int(s) on a token without whitespace, sign or underscore: the
\* token must be a non-empty run of decimal digits, otherwise ValueError.
IntParses(s) == Len(s) > 0 /\ \A i \in 1..Len(s) : IsDigit(s[i])

RECURSIVE IntValue(_)
IntValue(s) ==
    IF Len(s) = 0 THEN 0
    ELSE 10 * IntValue(SubSeq(s, 1, Len(s) - 1)) + DigitVal(s[Len(s)])

\* str.split(): the maximal runs of non-blank characters.
RECURSIVE SplitWs(_, _, _)
SplitWs(s, cur, acc) ==
    IF Len(s) = 0 THEN (IF Len(cur) > 0 THEN Append(acc, cur) ELSE acc)
    ELSE IF Head(s) = " "
         THEN SplitWs(Tail(s), <<>>,
                      IF Len(cur) > 0 THEN Append(acc, cur) ELSE acc)
         ELSE SplitWs(Tail(s), Append(cur, Head(s)), acc)

split(s) == SplitWs(s, <<>>, <<>>)

\* str.split(sep): every occurrence of sep separates, empty parts are kept.
RECURSIVE SplitSep(_, _, _, _)
SplitSep(s, sep, cur, acc) ==
    IF Len(s) = 0 THEN Append(acc, cur)
    ELSE IF Head(s) = sep
         THEN SplitSep(Tail(s), sep, <<>>, Append(acc, cur))
         ELSE SplitSep(Tail(s), sep, Append(cur, Head(s)), acc)

split_on(s, sep) == SplitSep(s, sep, <<>>, <<>>)

\* The result of a call: a returned value, or a raised ValueError.
Returned(v) == [raised |-> FALSE, value |-> v]
ValueError == [raised |-> TRUE, value |-> <<None, None>>]

\* extract_scores that puts the winner's score first
extract_scores_by_winner(result_str) ==
    IF pd_isna(result_str) THEN Returned(<<None, None>>)
    ELSE LET parts == split(result_str) IN
         IF Len(parts) >= 2
         THEN LET scores == split_on(parts[2], "-") IN
              IF Len(scores) = 2
              THEN IF IntParses(scores[1]) /\ IntParses(scores[2])
                   THEN IF parts[1] = <<"W">>
                        THEN Returned(<<Some(IntValue(scores[1])),
                                        Some(IntValue(scores[2]))>>)
                        ELSE Returned(<<Some(IntValue(scores[2])),
                                        Some(IntValue(scores[1]))>>)
                   ELSE ValueError
              ELSE Returned(<<None, None>>)
         ELSE Returned(<<None, None>>)

extract_scores(result_str) ==
    IF pd_isna(result_str) THEN Returned(<<None, None>>)
    ELSE LET parts == split(result_str) IN
         IF Len(parts) >= 2
         THEN LET scores == split_on(parts[2], "-") IN
              IF Len(scores) = 2
              THEN IF IntParses(scores[1]) /\ IntParses(scores[2])
                   THEN Returned(<<Some(IntValue(scores[1])),
                                   Some(IntValue(scores[2]))>>)
                   ELSE ValueError
              ELSE Returned(<<None, None>>)
         ELSE Returned(<<None, None>>)


Letters == <<"a", "b", "c", "d", "e", "f", "g", "h", "i", "j", "k", "l", "m",
             "n", "o", "p", "q", "r", "s", "t", "u", "v", "w", "x", "y", "z">>

Capitals == <<"A", "B", "C", "D", "E", "F", "G", "H", "I", "J", "K", "L", "M",
              "N", "O", "P", "Q", "R", "S", "T", "U", "V", "W", "X", "Y", "Z">>

\* a lower() that leaves capitals as they are
lower_keeps_case(s) == s

\* str.lower(), character by character.
lower(s) ==
    [i \in 1..Len(s) |->
        IF \E k \in 1..26 : Capitals[k] = s[i]
        THEN Letters[CHOOSE k \in 1..26 : Capitals[k] = s[i]]
        ELSE s[i]]

\* str(x) of a notes cell: a string is itself, a missing cell prints "nan".
str(x) == IF pd_isna(x) THEN <<"n", "a", "n">> ELSE x

\* sub in s
contains(s, sub) ==
    \E i \in 1..(Len(s) - Len(sub) + 1) :
        SubSeq(s, i, i + Len(sub) - 1) = sub

playoff_word == <<"p", "l", "a", "y", "o", "f", "f">>

\* pd.to_datetime(date).year and .month of an ISO date
year(date) == date \div 10000
month(date) == (date \div 100) % 100

\* season with the boundary a month early
season_from_september(date) ==
    IF month(date) >= 9 THEN year(date) ELSE year(date) - 1

season(date) == IF month(date) >= 10 THEN year(date) ELSE year(date) - 1

-----------------------------------------------------------------------------
(* The data frame *)

\* df.sort_values(['game_id', 'date']): a stable sort on the two columns.
KeyLeq(a, b) ==
    \/ a.game_id < b.game_id
    \/ a.game_id = b.game_id /\ a.date <= b.date

\* r goes behind every row of the sorted frame s whose key is not larger.
Insert(r, s) ==
    LET n == Cardinality({i \in 1..Len(s) : KeyLeq(s[i], r)})
    IN SubSeq(s, 1, n) \o <<r>> \o SubSeq(s, n + 1, Len(s))

RECURSIVE sort_values(_)
sort_values(d) ==
    IF Len(d) = 0 THEN <<>>
    ELSE Insert(d[Len(d)], sort_values(SubSeq(d, 1, Len(d) - 1)))

\* The keys of df.groupby('game_id'), which iterates them in ascending order.
RECURSIVE SortedKeys(_)
SortedKeys(S) ==
    IF S = {} THEN <<>>
    ELSE LET m == CHOOSE x \in S : \A y \in S : x <= y
         IN <<m>> \o SortedKeys(S \ {m})

\* a grouping that iterates the games by the date of their first row
groupby_keys_by_date(d) ==
    LET ids == {d[i].game_id : i \in 1..Len(d)}
        first(k) == CHOOSE i \in 1..Len(d) :
                        /\ d[i].game_id = k
                        /\ \A j \in 1..(i - 1) : d[j].game_id # k
        before(q, k) == \/ d[first(q)].date < d[first(k)].date
                        \/ d[first(q)].date = d[first(k)].date /\ q < k
    IN [p \in 1..Cardinality(ids) |->
           CHOOSE k \in ids :
               Cardinality({q \in ids : before(q, k)}) = p - 1]

\* line 110: groupby sorts the keys
groupby_keys(d) == SortedKeys({d[i].game_id : i \in 1..Len(d)})

\* The group of a key: its rows, in the order they have in the frame.
RECURSIVE get_group(_, _)
get_group(d, k) ==
    IF Len(d) = 0 THEN <<>>
    ELSE IF Head(d).game_id = k
         THEN <<Head(d)>> \o get_group(Tail(d), k)
         ELSE get_group(Tail(d), k)

\* the validity test that lets larger groups through
is_valid_game_at_least_two(g) == Len(g) >= 2

\* line 111
is_valid_game(g) == Len(g) = 2

\* orientations that differ from lines 115-118: the first row is home unless
\* the second is marked H; the rows in frame order; the test on A
home_away_first_unless_h(row1, row2) ==
    IF row2.game_location = "H" THEN <<row2, row1>> ELSE <<row1, row2>>

home_away_in_order(row1, row2) == <<row1, row2>>

home_away_test_a(row1, row2) ==
    IF row1.game_location = "A" THEN <<row2, row1>> ELSE <<row1, row2>>

\* lines 115-118: <<home_row, away_row>> of row1, row2
home_away(row1, row2) ==
    IF row1.game_location = "H" THEN <<row1, row2>> ELSE <<row2, row1>>

\* a record whose second pre-game rating is read from the home row
make_game_elo2_from_home(home, away, hscores, ascores) ==
    [date      |-> home.date,
     season    |-> season(home.date),
     neutral   |-> IF home.game_location = "N" THEN 1 ELSE 0,
     playoff   |-> IF contains(lower(str(home.notes)), playoff_word)
                   THEN 1 ELSE 0,
     team1     |-> home.franch_id,
     team2     |-> away.franch_id,
     elo1_pre  |-> home.elo_i,
     elo2_pre  |-> home.elo_i,
     elo_prob1 |-> home.forecast,
     elo_prob2 |-> away.forecast,
     elo1_post |-> home.elo_n,
     elo2_post |-> away.elo_n,
     score1    |-> hscores[1],
     score2    |-> hscores[2]]

\* a record that is neutral as soon as one of the two rows is marked N
make_game_neutral_either(home, away, hscores, ascores) ==
    [date      |-> home.date,
     season    |-> season(home.date),
     neutral   |-> IF "N" \in {home.game_location, away.game_location}
                   THEN 1 ELSE 0,
     playoff   |-> IF contains(lower(str(home.notes)), playoff_word)
                   THEN 1 ELSE 0,
     team1     |-> home.franch_id,
     team2     |-> away.franch_id,
     elo1_pre  |-> home.elo_i,
     elo2_pre  |-> away.elo_i,
     elo_prob1 |-> home.forecast,
     elo_prob2 |-> away.forecast,
     elo1_post |-> home.elo_n,
     elo2_post |-> away.elo_n,
     score1    |-> hscores[1],
     score2    |-> hscores[2]]

\* lines 135-150
make_game(home, away, hscores, ascores) ==
    [date      |-> home.date,
     season    |-> season(home.date),
     neutral   |-> IF home.game_location = "N" THEN 1 ELSE 0,
     playoff   |-> IF contains(lower(str(home.notes)), playoff_word)
                   THEN 1 ELSE 0,
     team1     |-> home.franch_id,
     team2     |-> away.franch_id,
     elo1_pre  |-> home.elo_i,
     elo2_pre  |-> away.elo_i,
     elo_prob1 |-> home.forecast,
     elo_prob2 |-> away.forecast,
     elo1_post |-> home.elo_n,
     elo2_post |-> away.elo_n,
     score1    |-> hscores[1],
     score2    |-> hscores[2]]

\* lines 131-132: does the loop body raise on this group
body_raises(g) ==
    LET ha == home_away(g[1], g[2])
    IN extract_scores(ha[1].game_result).raised
       \/ extract_scores(ha[2].game_result).raised

\* lines 112-150: the record of a valid group whose body does not raise
game_of(g) ==
    LET ha == home_away(g[1], g[2])
    IN make_game(ha[1], ha[2],
                 extract_scores(ha[1].game_result).value,
                 extract_scores(ha[2].game_result).value)

\* The whole call as a function of its argument: the returned list of
\* records, or the exception that ends the call.
RECURSIVE run_groups(_, _, _)
run_groups(d, ks, acc) ==
    IF Len(ks) = 0 THEN [raised |-> FALSE, games |-> acc]
    ELSE LET g == get_group(d, Head(ks)) IN
         IF ~is_valid_game(g) THEN run_groups(d, Tail(ks), acc)
         ELSE IF body_raises(g) THEN [raised |-> TRUE, games |-> <<>>]
         ELSE run_groups(d, Tail(ks), Append(acc, game_of(g)))

process_nbaallelo_to_games(d) ==
    LET sorted == sort_values(d)
    IN run_groups(sorted, groupby_keys(sorted), <<>>)

-----------------------------------------------------------------------------
(* Input frames *)

\* game_result cells
R_L_107_119 == <<"L", " ", "1", "0", "7", "-", "1", "1", "9">>
R_W_119_107 == <<"W", " ", "1", "1", "9", "-", "1", "0", "7">>
R_W_120_107 == <<"W", " ", "1", "2", "0", "-", "1", "0", "7">>
R_lead_blank == <<" ", "W", " ", " ", "7", "-", "1", "2">>
R_empty == <<>>
R_L == <<"L">>
R_L_107 == <<"L", " ", "1", "0", "7">>
R_L_1_2_3 == <<"L", " ", "1", "-", "2", "-", "3">>
R_L_abc_def == <<"L", " ", "a", "b", "c", "-", "d", "e", "f">>
R_L_107_ == <<"L", " ", "1", "0", "7", "-">>

WellFormedResults == {R_L_107_119, R_W_119_107, R_W_120_107, R_lead_blank}
NullResults == {NaN, R_empty, R_L, R_L_107, R_L_1_2_3}
RaisingResults == {R_L_abc_def, R_L_107_}
Results == WellFormedResults \cup NullResults \cup RaisingResults

\* the cells of a row that describe its team
Team(franch_id, elo_i, elo_n, forecast) ==
    [franch_id |-> franch_id, elo_i |-> elo_i, elo_n |-> elo_n,
     forecast |-> forecast]

LAL == Team("LAL", 15000, 14852, 36)
DEN == Team("DEN", 16000, 16148, 64)
PHX == Team("PHX", 15500, 15605, 54)

Row(game_id, date, team, game_location, game_result, notes) ==
    [game_id |-> game_id, date |-> date,
     franch_id |-> team.franch_id, elo_i |-> team.elo_i,
     elo_n |-> team.elo_n, forecast |-> team.forecast,
     game_location |-> game_location, game_result |-> game_result,
     notes |-> notes]

GameIds == {1, 2}
Locations == {"H", "A", "N"}
Dates == {20230930, 20231001, 20231024, 20240615}

\* Rows that differ in game, location and team; one team's result raises.
PairingRows ==
    {Row(g, 20231024, t, l,
         IF t = LAL THEN R_L_107_119
         ELSE IF t = DEN THEN R_W_119_107 ELSE R_L_abc_def,
         NaN) :
       g \in GameIds, l \in Locations, t \in {LAL, DEN, PHX}}

\* Rows of one game that differ in the result string.
ResultRows ==
    {Row(1, 20231024, IF l = "H" THEN LAL ELSE DEN, l, r, NaN) :
       l \in {"H", "A"}, r \in Results}

\* Rows of one game that differ in the date.
DateRows ==
    {Row(1, d, IF l = "H" THEN LAL ELSE IF l = "A" THEN DEN ELSE PHX,
         l, R_L_107_119, NaN) :
       l \in Locations, d \in Dates}

\* Rows of two games played on different days, one row per side.
ScheduleRows ==
    {Row(g, IF g = 1 THEN 20240615 ELSE 20231024,
         IF l = "H" THEN LAL ELSE DEN, l,
         IF l = "H" THEN R_L_107_119 ELSE R_W_119_107, NaN) :
       g \in GameIds, l \in {"H", "A"}}

\* notes cells
N_2023_Playoff_Game ==
    <<"2", "0", "2", "3", " ", "P", "l", "a", "y", "o", "f", "f", " ",
      "G", "a", "m", "e">>
N_PLAYOFF == <<"P", "L", "A", "Y", "O", "F", "F">>
N_Regular == <<"R", "e", "g", "u", "l", "a", "r">>
N_Play_off == <<"P", "l", "a", "y", " ", "o", "f", "f">>
N_empty == <<>>

Notes == {NaN, N_2023_Playoff_Game, N_PLAYOFF, N_Regular, N_Play_off, N_empty}

\* Rows of one game that differ in the notes.
NotesRows ==
    {Row(1, 20231024, IF l = "H" THEN LAL ELSE DEN, l,
         IF l = "H" THEN R_L_107_119 ELSE R_W_119_107, n) :
       l \in {"H", "A"}, n \in Notes}

Frames(rows, len) == UNION {[1..n -> rows] : n \in 0..len}

Inputs ==
    Frames(PairingRows, MaxRows) \cup Frames(ResultRows, MaxRows)
    \cup Frames(DateRows, MaxRows) \cup Frames(ScheduleRows, MaxRows + 1)
    \cup Frames(NotesRows, MaxRows)

\* the locals home_row, away_row before the first valid group
NoRow == Row(0, 0, Team("", 0, 0, 0), "", NaN, NaN)

\* Rows of the frames that are passed to successive calls.
CallRows ==
    {Row(1, d, t,
         IF t = LAL THEN "N" ELSE IF t = DEN THEN "A" ELSE "H",
         IF t = LAL THEN R_L_107_119
         ELSE IF t = DEN THEN R_W_119_107 ELSE R_L_abc_def,
         NaN) :
       d \in {20231024, 20240615}, t \in {LAL, DEN, PHX}}

CallInputs == Frames(CallRows, MaxCallRows)

Range(f) == {f[i] : i \in DOMAIN f}

\* prev before the second call
NoCall == [input |-> <<>>, raised |-> FALSE, games |-> <<>>]

-----------------------------------------------------------------------------
(* The script: values *)

\* line 21, as set when the module is imported
MIN_ROW_COUNT_import == 1000

\* the value the test gives the attribute
MIN_ROW_COUNT_patched == 1

\* line 33: the default of min_rows is the value MIN_ROW_COUNT has when the
\* def statement runs, that is at import
min_rows_default == MIN_ROW_COUNT_import

\* line 25
EXPECTED_COLUMNS ==
    {"gameorder", "game_id", "lg_id", "date", "franch_id", "opp_franch",
     "elo_i", "elo_n", "win_equiv", "opp_id", "opp_elo_i", "opp_elo_n",
     "game_location", "game_result", "forecast", "notes"}

\* the columns a caller of fetch_and_save_csv expects of its own dataset
ELO_COLUMNS == {"date", "season"}

Datasets == {"nbaallelo", "elo"}

ExpectedOf(dataset_name) ==
    IF dataset_name = "nbaallelo" THEN EXPECTED_COLUMNS ELSE ELO_COLUMNS

\* f"{dataset_name}_{timestamp}.csv" in RAW_DATA_DIR (lines 72-74)
FileName(dataset_name, timestamp) == <<dataset_name, timestamp>>

NoFile == <<"", 0>>

\* A data frame read from a CSV text: its columns, and its rows, which are
\* the rows of sample followed by pad rows of pad further games, one row
\* each (rows that process_nbaallelo_to_games passes over).
Frame(sample, pad, columns) ==
    [sample |-> sample, pad |-> pad, columns |-> columns]

NoFrame == Frame(<<>>, 0, {})

\* len(df)
len(frame) == Len(frame.sample) + frame.pad

\* two rows of one game, one with a result on which int() raises
RaisingInput ==
    <<Row(1, 20231024, PHX, "H", R_L_abc_def, NaN),
      Row(1, 20231024, DEN, "A", R_W_119_107, NaN)>>

\* the two rows of the test's nbaallelo sample, of one game
SampleInput ==
    <<Row(1, 20231024, LAL, "H", R_L_107_119, NaN),
      Row(1, 20231024, DEN, "A", R_W_119_107, NaN)>>

\* the frames a response body parses to: 2, 999 or 1000 rows, with all
\* columns or without the notes column
Bodies ==
    {Frame(smp, pad, cols) :
        smp \in {SampleInput, RaisingInput},
        pad \in {0, MIN_ROW_COUNT_import - 3, MIN_ROW_COUNT_import - 2},
        cols \in {EXPECTED_COLUMNS, EXPECTED_COLUMNS \ {"notes"}}}

\* what requests.get and pd.read_csv meet: a connection error, an error
\* status, a text that is not CSV, or a CSV text
Response(status, body) == [status |-> status, body |-> body]

Responses ==
    {Response(st, NoFrame) :
        st \in {"ConnectionError", "HTTPError", "ParserError"}}
    \cup {Response("ok", b) : b \in Bodies}

NoResponse == Response("none", NoFrame)

\* the content of a file of RAW_DATA_DIR: a frame written by to_csv, or the
\* records of a games frame
FrameFile(frame) == [frame |-> frame, games |-> <<>>]
GamesFile(g) == [frame |-> NoFrame, games |-> g]

\* pd.read_csv of a file written by to_csv: an empty string cell is read
\* back as a missing cell
ReadBack(cell) == IF cell = <<>> THEN NaN ELSE cell

read_csv(content) ==
    [content.frame EXCEPT !.sample =
        [i \in 1..Len(content.frame.sample) |->
            [content.frame.sample[i] EXCEPT
                !.game_result = ReadBack(@), !.notes = ReadBack(@)]]]

\* Path.exists() of latest_<dataset>.csv follows the link: the link is
\* there and so is its target
link_exists(lnk, fls, dataset_name) ==
    /\ lnk[dataset_name] # NoFile
    /\ lnk[dataset_name] \in DOMAIN fls

\* Path.is_symlink()
is_symlink(lnk, dataset_name) == lnk[dataset_name] # NoFile

\* to_csv(filepath): the file is created or overwritten
write_file(fls, name, content) ==
    [f \in DOMAIN fls \cup {name} |-> IF f = name THEN content ELSE fls[f]]

\* a validation that also rejects a frame that lacks expected columns
validate_csv_content_strict(frame, expected_columns, min_rows) ==
    [raised |-> len(frame) < min_rows \/ expected_columns \ frame.columns # {},
     exc    |-> IF len(frame) < min_rows
                   \/ expected_columns \ frame.columns # {}
                THEN "ValueError" ELSE "none",
     value  |-> ~(len(frame) < min_rows
                  \/ expected_columns \ frame.columns # {}),
     warned |-> FALSE]

\* lines 33-45
validate_csv_content(frame, expected_columns, min_rows) ==
    IF len(frame) < min_rows
    THEN [raised |-> TRUE, exc |-> "ValueError", value |-> FALSE,
          warned |-> FALSE]
    ELSE [raised |-> FALSE, exc |-> "none", value |-> TRUE,
          warned |-> expected_columns \ frame.columns # {}]

\* the frames of the two functions when they are not running
FetchOff ==
    [pc |-> "off", caller |-> "none", dataset |-> "", expected |-> {},
     response |-> NoResponse, df |-> NoFrame, warned |-> FALSE,
     filename |-> NoFile, raised_at |-> "none", exc |-> "none",
     outcome |-> "none", files_before |-> <<>>,
     latest_before |-> [d \in {"nbaallelo", "elo"} |-> <<"", 0>>]]

MainOff ==
    [pc |-> "off", ensure_calls |-> 0, fetch_calls |-> 0,
     nbaallelo_path |-> NoFile, df |-> NoFrame, games_df |-> <<>>,
     games_filename |-> NoFile, exc |-> "none", success |-> FALSE,
     exit |-> -1, latest_before |-> [d \in {"nbaallelo", "elo"} |-> <<"", 0>>]]

\* how a call from outside ended: returned, raised, or exited
Result(fn, kind, exc, value, code) ==
    [fn |-> fn, kind |-> kind, exc |-> exc, value |-> value, code |-> code,
     frame |-> NoFrame, expected |-> {}, min_rows |-> 0, truth |-> FALSE,
     warned |-> FALSE]

NoResult == Result("none", "none", "none", NoFile, -1)

\* nothing of the script runs and nothing was fetched yet
ScriptAtRest ==
    /\ dir_exists = FALSE
    /\ files = <<>>
    /\ latest = [d \in Datasets |-> NoFile]
    /\ MIN_ROW_COUNT = MIN_ROW_COUNT_import
    /\ now = 0
    /\ fetch = FetchOff
    /\ main = MainOff
    /\ finished = NoResult
    /\ top = 0

-----------------------------------------------------------------------------
(* load_duckdb: values *)

\* str.upper(), character by character
upper(s) ==
    [i \in 1..Len(s) |->
        IF \E k \in 1..26 : Letters[k] = s[i]
        THEN Capitals[CHOOSE k \in 1..26 : Letters[k] = s[i]]
        ELSE s[i]]

DUCKDB == <<"D", "U", "C", "K", "D", "B">>
MYSQL == <<"M", "Y", "S", "Q", "L">>

\* values of the WAREHOUSE variable of the environment
Warehouses ==
    {DUCKDB, lower(DUCKDB), <<"D", "u", "c", "k", "D", "b">>, MYSQL,
     lower(MYSQL), <<"D", "U", "C", "K">>, DUCKDB \o <<" ">>, <<>>}

\* f"Warehouse type {WAREHOUSE} not implemented in this script"
NotImplementedMessage(warehouse) ==
    <<"Warehouse type ">> \o warehouse \o <<" not implemented in this script">>

NoConn == [kind |-> "none", exc |-> "none", message |-> <<>>, opened |-> 0]

\* a get_connection that compares WAREHOUSE as it is written
get_connection_exact(warehouse, opened) ==
    IF warehouse = DUCKDB
    THEN [kind |-> "connection", exc |-> "none", message |-> <<>>,
          opened |-> opened + 1]
    ELSE [kind |-> "raised", exc |-> "NotImplementedError",
          message |-> NotImplementedMessage(warehouse), opened |-> opened]

\* lines 29-35; opened counts the calls of duckdb.connect
get_connection(warehouse, opened) ==
    IF upper(warehouse) = DUCKDB
    THEN [kind |-> "connection", exc |-> "none", message |-> <<>>,
          opened |-> opened + 1]
    ELSE [kind |-> "raised", exc |-> "NotImplementedError",
          message |-> NotImplementedMessage(warehouse), opened |-> opened]

\* the two tables and the columns that hold their team codes: team1, team2
\* of raw.elo (lines 87-92), franch_id, opp_franch of raw.nbaallelo (139-144)
RawTables == {"elo", "nbaallelo"}

\* cells of a CSV file: a text, nothing between two commas, or ""
EmptyCell == ""
QuotedEmptyCell == "\"\""
\* the NULL of the database, and the empty string
NULL == "NULL"
EmptyString == ""

\* a row of a CSV file or of a table: its number and its two team codes
CsvRow(gameorder, code1, code2) ==
    [gameorder |-> gameorder, code1 |-> code1, code2 |-> code2]

CsvRows ==
    {CsvRow(1, "LAL", "DEN"), CsvRow(2, EmptyCell, "DEN"),
     CsvRow(3, QuotedEmptyCell, EmptyCell)}

\* a file with rows that fit the columns of the table, or one that does not
CsvFile(rows, fits) == [rows |-> rows, fits |-> fits]

CsvFiles ==
    {CsvFile(rows, TRUE) : rows \in Frames(CsvRows, MaxCsvRows)}
    \cup {CsvFile(<<CsvRow(1, "LAL", "DEN")>>, FALSE)}

\* latest_<table>.csv is not there, or its target is not
NoCsv == CsvFile(<<>>, FALSE)

\* a table that does not exist, and a table with rows
NoTable == [exists |-> FALSE, rows |-> <<>>]
Table(rows) == [exists |-> TRUE, rows |-> rows]

\* COPY ... WITH (HEADER TRUE, DELIMITER ',', NULL ''): an empty cell is
\* NULL; a quoted empty cell is NULL or the empty string, as the reader of
\* the installed DuckDB has it
copy_cell(cell, quoted_nulls) ==
    IF cell = EmptyCell THEN NULL
    ELSE IF cell = QuotedEmptyCell
         THEN (IF quoted_nulls THEN NULL ELSE EmptyString)
    ELSE cell

copy_from(csv, quoted_nulls) ==
    [i \in 1..Len(csv.rows) |->
        CsvRow(csv.rows[i].gameorder,
               copy_cell(csv.rows[i].code1, quoted_nulls),
               copy_cell(csv.rows[i].code2, quoted_nulls))]

\* an UPDATE that replaces the NULL codes only
update_unk_null_only(rows) ==
    [i \in 1..Len(rows) |->
        CsvRow(rows[i].gameorder,
               IF rows[i].code1 = NULL THEN "UNK" ELSE rows[i].code1,
               IF rows[i].code2 = NULL THEN "UNK" ELSE rows[i].code2)]

\* lines 87-92 and 139-144: SET col = 'UNK' WHERE col IS NULL OR col = ''
update_unk(rows) ==
    [i \in 1..Len(rows) |->
        CsvRow(rows[i].gameorder,
               IF rows[i].code1 = NULL \/ rows[i].code1 = EmptyString
               THEN "UNK" ELSE rows[i].code1,
               IF rows[i].code2 = NULL \/ rows[i].code2 = EmptyString
               THEN "UNK" ELSE rows[i].code2)]

\* the frame of a load function when it is not running
LoadOff ==
    [pc |-> "off", table |-> "", csv |-> NoCsv, exc |-> "none",
     outcome |-> "none", tables_before |-> [t \in RawTables |-> NoTable],
     statements |-> 0]

\* nothing of load_duckdb has run; files and tables are as the runs before
\* left them
LoaderAtRest ==
    /\ WAREHOUSE = DUCKDB
    /\ latest_csv = [t \in RawTables |-> NoCsv]
    /\ tables = [t \in RawTables |-> NoTable]
    /\ load = LoadOff
    /\ conn = NoConn
    /\ loads = 0

-----------------------------------------------------------------------------
(* The DAG: values *)

\* the task_id of the seven operators, lines 61-132
Tasks ==
    {"fetch_raw_data", "load_to_warehouse", "dbt_seed", "dbt_run",
     "dbt_test", "export_metrics", "success_notification"}

\* the TaskGroup of lines 79-105
dbt_group == {"dbt_seed", "dbt_run", "dbt_test"}

\* line 108: dbt_seed >> dbt_run >> dbt_test
GroupEdges == {<<"dbt_seed", "dbt_run">>, <<"dbt_run", "dbt_test">>}

\* the tasks of a group that have no upstream, no downstream task in it
roots(grp, edges) == {t \in grp : ~\E u \in grp : <<u, t>> \in edges}
leaves(grp, edges) == {t \in grp : ~\E d \in grp : <<t, d>> \in edges}

\* line 135: a >> group makes a upstream of the roots of the group, and
\* group >> b makes the leaves of the group upstream of b
Edges ==
    GroupEdges
    \cup {<<"fetch_raw_data", "load_to_warehouse">>}
    \cup {<<"load_to_warehouse", t>> : t \in roots(dbt_group, GroupEdges)}
    \cup {<<t, "export_metrics">> : t \in leaves(dbt_group, GroupEdges)}
    \cup {<<"export_metrics", "success_notification">>}

upstream(t) == {u \in Tasks : <<u, t>> \in Edges}

\* line 30: 'retries': 2 of default_args
retries == 2

\* a DAG whose last task has trigger_rule='all_done'
trigger_rule_all_done(t) ==
    IF t = "success_notification" THEN "all_done" ELSE "all_success"

\* line 131, and the default of the operators
trigger_rule(t) == "all_success"

\* a task instance that the scheduler has not looked at
NoTi == [state |-> "none", try_number |-> 0]

DagAtRest ==
    /\ dag_run = 1
    /\ ti = [t \in Tasks |-> NoTi]
    /\ started = <<>>

-----------------------------------------------------------------------------
(* export_metrics: values *)

\* the three exports in the order of lines 208-210
ExportOrder == <<"team_win_rates", "elo_trends", "point_diff_by_season">>
Exports == {ExportOrder[i] : i \in 1..3}

\* f"{export}_{timestamp}.csv" in EXPORT_DIR
ExportName(export, timestamp) == <<export, timestamp>>
NoExport == <<"", 0>>

\* Path.exists() of latest_<export>.csv follows the link
export_link_exists(lnk, fls, export) ==
    lnk[export] # NoExport /\ lnk[export] \in fls

\* what the try block of an export meets: the query fails (line 50), to_csv
\* fails (line 56), or both work
ExportEvents == {"query_error", "write_error", "ok"}

\* an export that removes the link before it runs the query
export_unlinks_first(e, timestamp, event, fls, lnk) ==
    IF event \in {"query_error", "write_error"}
    THEN [df |-> "None", files |-> fls,
          latest |-> [lnk EXCEPT ![e] = NoExport]]
    ELSE [df |-> "df", files |-> fls \cup {ExportName(e, timestamp)},
          latest |-> [lnk EXCEPT ![e] = ExportName(e, timestamp)]]

\* lines 49-68: an export function with its handler, as a function of the
\* files, the links and what the try block meets; df is None after a failure
export(e, timestamp, event, fls, lnk) ==
    IF event = "query_error"
    THEN [df |-> "None", files |-> fls, latest |-> lnk]
    ELSE IF event = "write_error"
    THEN [df |-> "None", files |-> fls, latest |-> lnk]
    ELSE IF lnk[e] # NoExport /\ ~export_link_exists(lnk, fls, e)
    THEN [df |-> "None", files |-> fls \cup {ExportName(e, timestamp)},
          latest |-> lnk]
    ELSE [df |-> "df", files |-> fls \cup {ExportName(e, timestamp)},
          latest |-> [lnk EXCEPT ![e] = ExportName(e, timestamp)]]

\* the frame of main when it is not running; run counts the calls of main
\* and is the second of the clock in which the run writes its files
ExporterOff ==
    [pc |-> "off", run |-> 0, next |-> 1,
     returned |-> [e \in Exports |-> "not_called"],
     latest_before |-> [e \in Exports |-> NoExport],
     summary |-> FALSE, success |-> FALSE, escaped |-> "none", exit |-> -1]

ExporterAtRest ==
    /\ export_files = {}
    /\ export_latest = [e \in Exports |-> NoExport]
    /\ exporter = ExporterOff

-----------------------------------------------------------------------------
(* fetch_nba_api: values *)

\* a game of the data of a page
Game(p, k) == [id |-> k, page |-> p]

\* the data the API sends for the request of page p
PageData(p) == {<<>>, <<Game(p, 1)>>, <<Game(p, 1), Game(p, 2)>>}

\* what requests.get meets for the request of page p: an error, or a JSON
\* body with data and meta.current_page, meta.total_pages as the API has them
ApiResponse(kind, data, current_page, total_pages) ==
    [kind |-> kind, data |-> data, current_page |-> current_page,
     total_pages |-> total_pages]

ApiResponses(p) ==
    {ApiResponse("RequestException", <<>>, 0, 0)}
    \cup {ApiResponse("ok", d, c, t) :
            d \in PageData(p), c \in 1..MaxTotalPages, t \in 1..MaxTotalPages}

\* lines 84-101: the records of the games of a page, in the order of the page
page_games(data) == data

\* the frame of fetch_games when it is not running; odd is the parity of
\* the requests made, which is what the model keeps of the page numbers
\* from MaxPage on
PagerOff ==
    [pc |-> "off", page |-> 1, games |-> <<>>, requested |-> <<>>,
     exc |-> "none", calls |-> 0, odd |-> FALSE]

PagerAtRest == pager = PagerOff

OrchestrationAtRest == DagAtRest /\ ExporterAtRest /\ PagerAtRest

PipelineAtRest == LoaderAtRest /\ OrchestrationAtRest

-----------------------------------------------------------------------------
(* The call process_nbaallelo_to_games(input) *)

Init ==
    /\ input \in Inputs
    /\ df = input
    /\ keys = <<>>
    /\ games = <<>>
    /\ group = <<>>
    /\ home_row = NoRow
    /\ away_row = NoRow
    /\ home_scores = <<None, None>>
    /\ away_scores = <<None, None>>
    /\ pc = "start"
    /\ calls = 1
    /\ prev = NoCall
    /\ ScriptAtRest
    /\ PipelineAtRest

\* a sort that is not stable: rows with equal keys come in any order
SortValuesUnstable ==
    /\ pc = "start"
    /\ df' \in {d \in [1..Len(df) -> Range(df)] :
                   /\ \E f \in [1..Len(df) -> 1..Len(df)] :
                         /\ \A i, j \in 1..Len(df) : i # j => f[i] # f[j]
                         /\ d = [i \in 1..Len(df) |-> df[f[i]]]
                   /\ \A i, j \in 1..Len(d) : i < j => KeyLeq(d[i], d[j])}
    /\ keys' = groupby_keys(df')
    /\ pc' = "loop"
    /\ UNCHANGED <<input, games, group, home_row, away_row,
                   home_scores, away_scores, calls, prev>>
    /\ UNCHANGED <<script, pipeline>>

\* line 104 and the groupby of line 110
SortValues ==
    /\ pc = "start"
    /\ df' = sort_values(df)
    /\ keys' = groupby_keys(df')
    /\ pc' = "loop"
    /\ UNCHANGED <<input, games, group, home_row, away_row,
                   home_scores, away_scores, calls, prev>>
    /\ UNCHANGED <<script, pipeline>>

\* lines 110-111: a group that does not have two rows is passed over
SkipGroup ==
    /\ pc = "loop"
    /\ Len(keys) > 0
    /\ group' = get_group(df, Head(keys))
    /\ ~is_valid_game(group')
    /\ keys' = Tail(keys)
    /\ UNCHANGED <<input, df, games, home_row, away_row,
                   home_scores, away_scores, pc, calls, prev>>
    /\ UNCHANGED <<script, pipeline>>

\* lines 110-152: a group of two rows gives one record
PairGroup ==
    /\ pc = "loop"
    /\ Len(keys) > 0
    /\ group' = get_group(df, Head(keys))
    /\ is_valid_game(group')
    /\ ~body_raises(group')
    /\ LET ha == home_away(group'[1], group'[2]) IN
          /\ home_row' = ha[1]
          /\ away_row' = ha[2]
    /\ home_scores' = extract_scores(home_row'.game_result).value
    /\ away_scores' = extract_scores(away_row'.game_result).value
    /\ games' = Append(games,
                       make_game(home_row', away_row',
                                 home_scores', away_scores'))
    /\ keys' = Tail(keys)
    /\ UNCHANGED <<input, df, pc, calls, prev>>
    /\ UNCHANGED <<script, pipeline>>

\* lines 128, 131-132: int() raises ValueError, which ends the call
RaiseValueError ==
    /\ pc = "loop"
    /\ Len(keys) > 0
    /\ group' = get_group(df, Head(keys))
    /\ is_valid_game(group')
    /\ body_raises(group')
    /\ LET ha == home_away(group'[1], group'[2]) IN
          /\ home_row' = ha[1]
          /\ away_row' = ha[2]
    /\ home_scores' = IF extract_scores(home_row'.game_result).raised
                      THEN home_scores
                      ELSE extract_scores(home_row'.game_result).value
    /\ pc' = "raised"
    /\ UNCHANGED <<input, df, keys, games, away_scores, calls, prev>>
    /\ UNCHANGED <<script, pipeline>>

\* lines 154-157
Return ==
    /\ pc = "loop"
    /\ Len(keys) = 0
    /\ pc' = "done"
    /\ UNCHANGED <<input, df, keys, games, group, home_row, away_row,
                   home_scores, away_scores, calls, prev>>
    /\ UNCHANGED <<script, pipeline>>

Next ==
    \/ SortValues
    \/ SkipGroup
    \/ PairGroup
    \/ RaiseValueError
    \/ Return

Spec == Init /\ [][Next]_vars

(* Successive calls of the function by one caller *)

InitCalls ==
    /\ input \in CallInputs
    /\ df = input
    /\ keys = <<>>
    /\ games = <<>>
    /\ group = <<>>
    /\ home_row = NoRow
    /\ away_row = NoRow
    /\ home_scores = <<None, None>>
    /\ away_scores = <<None, None>>
    /\ pc = "start"
    /\ calls = 1
    /\ prev = NoCall
    /\ ScriptAtRest
    /\ PipelineAtRest

\* a next call whose list of records is the list the call before left
CallKeepsGames ==
    /\ pc \in {"done", "raised"}
    /\ calls < MaxCalls
    /\ prev' = [input |-> input, raised |-> pc = "raised",
                games |-> IF pc = "raised" THEN <<>> ELSE games]
    /\ input' \in CallInputs
    /\ df' = input'
    /\ keys' = <<>>
    /\ group' = <<>>
    /\ home_row' = NoRow
    /\ away_row' = NoRow
    /\ home_scores' = <<None, None>>
    /\ away_scores' = <<None, None>>
    /\ pc' = "start"
    /\ calls' = calls + 1
    /\ UNCHANGED games
    /\ UNCHANGED <<script, pipeline>>

\* lines 99-107: the function is entered again, with the same frame or
\* another one; its locals are new
Call ==
    /\ pc \in {"done", "raised"}
    /\ calls < MaxCalls
    /\ prev' = [input |-> input, raised |-> pc = "raised",
                games |-> IF pc = "raised" THEN <<>> ELSE games]
    /\ input' \in CallInputs
    /\ df' = input'
    /\ keys' = <<>>
    /\ games' = <<>>
    /\ group' = <<>>
    /\ home_row' = NoRow
    /\ away_row' = NoRow
    /\ home_scores' = <<None, None>>
    /\ away_scores' = <<None, None>>
    /\ pc' = "start"
    /\ calls' = calls + 1
    /\ UNCHANGED <<script, pipeline>>

NextCalls ==
    \/ SortValues
    \/ SkipGroup
    \/ PairGroup
    \/ RaiseValueError
    \/ Return
    \/ Call

SpecCalls == InitCalls /\ [][NextCalls]_vars

-----------------------------------------------------------------------------
(* The script: ensure_directory, validate_csv_content, fetch_and_save_csv    *)
(* and main, called from outside one after the other                        *)

ReconcilerAtRest ==
    /\ input = <<>>
    /\ df = <<>>
    /\ keys = <<>>
    /\ games = <<>>
    /\ group = <<>>
    /\ home_row = NoRow
    /\ away_row = NoRow
    /\ home_scores = <<None, None>>
    /\ away_scores = <<None, None>>
    /\ pc = "start"
    /\ calls = 1
    /\ prev = NoCall

InitScript == ReconcilerAtRest /\ ScriptAtRest /\ PipelineAtRest

Idle == fetch.pc = "off" /\ main.pc = "off"

\* the clock goes on
Tick ==
    /\ now < MaxClock
    /\ now' = now + 1
    /\ UNCHANGED <<dir_exists, files, latest, MIN_ROW_COUNT, fetch, main,
                   finished, top>>
    /\ UNCHANGED <<reconciler, pipeline>>

\* test_fetch_538.py line 80: the attribute of the module is set
Monkeypatch ==
    /\ Idle
    /\ MIN_ROW_COUNT' \in
          {MIN_ROW_COUNT_import, MIN_ROW_COUNT_patched} \ {MIN_ROW_COUNT}
    /\ UNCHANGED <<dir_exists, files, latest, now, fetch, main, finished,
                   top>>
    /\ UNCHANGED <<reconciler, pipeline>>

\* between two calls a snapshot is deleted from RAW_DATA_DIR; a link that
\* points to it stays and dangles
RemoveSnapshot ==
    /\ Idle
    /\ \E name \in DOMAIN files :
          files' = [f \in DOMAIN files \ {name} |-> files[f]]
    /\ UNCHANGED <<dir_exists, latest, MIN_ROW_COUNT, now, fetch, main,
                   finished, top>>
    /\ UNCHANGED <<reconciler, pipeline>>

\* lines 28-31, called from outside
CallEnsureDirectory ==
    /\ Idle
    /\ top < MaxTop
    /\ top' = top + 1
    /\ dir_exists' = TRUE
    /\ finished' = Result("ensure_directory", "returned", "none", NoFile, -1)
    /\ UNCHANGED <<files, latest, MIN_ROW_COUNT, now, fetch, main>>
    /\ UNCHANGED <<reconciler, pipeline>>

\* lines 33-45, called from outside with min_rows given
CallValidate ==
    /\ Idle
    /\ top < MaxTop
    /\ top' = top + 1
    /\ \E frame \in Bodies, exp \in {EXPECTED_COLUMNS, ELO_COLUMNS},
          min_rows \in {MIN_ROW_COUNT_patched, MIN_ROW_COUNT_import} :
          LET v == validate_csv_content(frame, exp, min_rows) IN
          finished' =
              [Result("validate_csv_content",
                      IF v.raised THEN "raised" ELSE "returned",
                      v.exc, NoFile, -1)
               EXCEPT !.frame = frame, !.expected = exp,
                      !.min_rows = min_rows, !.truth = v.value,
                      !.warned = v.warned]
    /\ UNCHANGED <<dir_exists, files, latest, MIN_ROW_COUNT, now, fetch,
                   main>>
    /\ UNCHANGED <<reconciler, pipeline>>

\* lines 47-49: fetch_and_save_csv is called from outside
CallFetch ==
    /\ Idle
    /\ top < MaxTop
    /\ top' = top + 1
    /\ \E d \in Datasets :
          fetch' = [FetchOff EXCEPT !.pc = "request", !.caller = "top",
                                    !.dataset = d,
                                    !.expected = ExpectedOf(d),
                                    !.files_before = files,
                                    !.latest_before = latest]
    /\ finished' = NoResult
    /\ UNCHANGED <<dir_exists, files, latest, MIN_ROW_COUNT, now, main>>
    /\ UNCHANGED <<reconciler, pipeline>>

\* lines 53-57: requests.get and raise_for_status
FetchRequest ==
    /\ fetch.pc = "request"
    /\ \E r \in Responses :
          fetch' =
              IF r.status \in {"ConnectionError", "HTTPError"}
              THEN [fetch EXCEPT !.pc = "except", !.exc = r.status,
                                 !.raised_at = "request"]
              ELSE [fetch EXCEPT !.pc = "parse", !.response = r]
    /\ UNCHANGED <<dir_exists, files, latest, MIN_ROW_COUNT, now, main,
                   finished, top>>
    /\ UNCHANGED <<reconciler, pipeline>>

\* line 65: pd.read_csv of the response text
FetchParse ==
    /\ fetch.pc = "parse"
    /\ fetch' =
          IF fetch.response.status = "ParserError"
          THEN [fetch EXCEPT !.pc = "except", !.exc = "ParserError",
                             !.raised_at = "parse"]
          ELSE [fetch EXCEPT !.pc = "validate", !.df = fetch.response.body]
    /\ UNCHANGED <<dir_exists, files, latest, MIN_ROW_COUNT, now, main,
                   finished, top>>
    /\ UNCHANGED <<reconciler, pipeline>>

\* a validation that runs after the frame was written
FetchValidateAfterSave ==
    /\ fetch.pc = "validate"
    /\ LET v == validate_csv_content(fetch.df, fetch.expected,
                                     min_rows_default) IN
          /\ fetch' =
                IF v.raised
                THEN [fetch EXCEPT !.pc = "except", !.exc = v.exc,
                                   !.raised_at = "validate"]
                ELSE [fetch EXCEPT !.pc = "save", !.warned = v.warned]
          /\ files' = IF v.raised /\ dir_exists
                      THEN write_file(files, FileName(fetch.dataset, now),
                                      FrameFile(fetch.df))
                      ELSE files
    /\ UNCHANGED <<dir_exists, latest, MIN_ROW_COUNT, now, main,
                   finished, top>>
    /\ UNCHANGED <<reconciler, pipeline>>

\* line 69: validate_csv_content(df, expected_cols), min_rows by default
FetchValidate ==
    /\ fetch.pc = "validate"
    /\ LET v == validate_csv_content(fetch.df, fetch.expected,
                                     min_rows_default) IN
          fetch' =
              IF v.raised
              THEN [fetch EXCEPT !.pc = "except", !.exc = v.exc,
                                 !.raised_at = "validate"]
              ELSE [fetch EXCEPT !.pc = "save", !.warned = v.warned]
    /\ UNCHANGED <<dir_exists, files, latest, MIN_ROW_COUNT, now, main,
                   finished, top>>
    /\ UNCHANGED <<reconciler, pipeline>>

\* lines 72-76: the frame is written under the name of this second
FetchSave ==
    /\ fetch.pc = "save"
    /\ IF dir_exists
       THEN /\ files' = write_file(files, FileName(fetch.dataset, now),
                                   FrameFile(fetch.df))
            /\ fetch' = [fetch EXCEPT !.pc = "link",
                                      !.filename = FileName(fetch.dataset, now)]
       ELSE /\ fetch' = [fetch EXCEPT !.pc = "except", !.exc = "OSError",
                                      !.raised_at = "save"]
            /\ UNCHANGED files
    /\ UNCHANGED <<dir_exists, latest, MIN_ROW_COUNT, now, main, finished,
                   top>>
    /\ UNCHANGED <<reconciler, pipeline>>

\* lines 79-83: the link is removed if exists() sees it, and made anew;
\* symlink_to fails on a link that is still there
FetchLink ==
    /\ fetch.pc = "link"
    /\ IF is_symlink(latest, fetch.dataset)
          /\ ~link_exists(latest, files, fetch.dataset)
       THEN /\ fetch' = [fetch EXCEPT !.pc = "except",
                                      !.exc = "FileExistsError",
                                      !.raised_at = "link"]
            /\ UNCHANGED latest
       ELSE /\ latest' = [latest EXCEPT ![fetch.dataset] = fetch.filename]
            /\ fetch' = [fetch EXCEPT !.pc = "return"]
    /\ UNCHANGED <<dir_exists, files, MIN_ROW_COUNT, now, main, finished,
                   top>>
    /\ UNCHANGED <<reconciler, pipeline>>

\* line 85: the path goes to the caller
FetchReturn ==
    /\ fetch.pc = "return"
    /\ fetch' = [fetch EXCEPT !.pc = "off", !.outcome = "returned"]
    /\ IF fetch.caller = "main"
       THEN /\ main' = [main EXCEPT !.pc = "read",
                                    !.nbaallelo_path = fetch.filename]
            /\ UNCHANGED finished
       ELSE /\ finished' = Result("fetch_and_save_csv", "returned", "none",
                                  fetch.filename, -1)
            /\ UNCHANGED main
    /\ UNCHANGED <<dir_exists, files, latest, MIN_ROW_COUNT, now, top>>
    /\ UNCHANGED <<reconciler, pipeline>>

\* handlers that print and return None where lines 87-97 raise
FetchSwallow ==
    /\ fetch.pc = "except"
    /\ fetch' = [fetch EXCEPT !.pc = "off", !.outcome = "returned"]
    /\ IF fetch.caller = "main"
       THEN /\ main' = [main EXCEPT !.pc = "read"]
            /\ UNCHANGED finished
       ELSE /\ finished' = Result("fetch_and_save_csv", "returned", "none",
                                  NoFile, -1)
            /\ UNCHANGED main
    /\ UNCHANGED <<dir_exists, files, latest, MIN_ROW_COUNT, now, top>>
    /\ UNCHANGED <<reconciler, pipeline>>

\* lines 87-97: each handler prints and raises the exception again
FetchReraise ==
    /\ fetch.pc = "except"
    /\ fetch' = [fetch EXCEPT !.pc = "off", !.outcome = "raised"]
    /\ IF fetch.caller = "main"
       THEN /\ main' = [main EXCEPT !.pc = "except", !.exc = fetch.exc]
            /\ UNCHANGED finished
       ELSE /\ finished' = Result("fetch_and_save_csv", "raised", fetch.exc,
                                  NoFile, -1)
            /\ UNCHANGED main
    /\ UNCHANGED <<dir_exists, files, latest, MIN_ROW_COUNT, now, top>>
    /\ UNCHANGED <<reconciler, pipeline>>

\* lines 159-162: main is called from outside
CallMain ==
    /\ Idle
    /\ top < MaxTop
    /\ top' = top + 1
    /\ main' = [MainOff EXCEPT !.pc = "ensure", !.latest_before = latest]
    /\ finished' = NoResult
    /\ UNCHANGED <<dir_exists, files, latest, MIN_ROW_COUNT, now, fetch>>
    /\ UNCHANGED <<reconciler, pipeline>>

\* line 164
MainEnsureDirectory ==
    /\ main.pc = "ensure"
    /\ dir_exists' = TRUE
    /\ main' = [main EXCEPT !.pc = "fetch",
                            !.ensure_calls = main.ensure_calls + 1]
    /\ UNCHANGED <<files, latest, MIN_ROW_COUNT, now, fetch, finished, top>>
    /\ UNCHANGED <<reconciler, pipeline>>

\* lines 169-173: the one call of fetch_and_save_csv
MainCallFetch ==
    /\ main.pc = "fetch"
    /\ main' = [main EXCEPT !.pc = "in_fetch",
                            !.fetch_calls = main.fetch_calls + 1]
    /\ fetch' = [FetchOff EXCEPT !.pc = "request", !.caller = "main",
                                 !.dataset = "nbaallelo",
                                 !.expected = EXPECTED_COLUMNS,
                                 !.files_before = files,
                                 !.latest_before = latest]
    /\ UNCHANGED <<dir_exists, files, latest, MIN_ROW_COUNT, now, finished,
                   top>>
    /\ UNCHANGED <<reconciler, pipeline>>

\* line 176
MainReadCsv ==
    /\ main.pc = "read"
    /\ main' = [main EXCEPT !.pc = "process",
                            !.df = read_csv(files[main.nbaallelo_path])]
    /\ UNCHANGED <<dir_exists, files, latest, MIN_ROW_COUNT, now, fetch,
                   finished, top>>
    /\ UNCHANGED <<reconciler, pipeline>>

\* a main that points latest_elo.csv to the name of this second before it
\* reconciles
MainProcessLinksFirst ==
    /\ main.pc = "process"
    /\ LET out == process_nbaallelo_to_games(main.df.sample) IN
          main' =
              IF out.raised
              THEN [main EXCEPT !.pc = "except", !.exc = "ValueError"]
              ELSE [main EXCEPT !.pc = "save", !.games_df = out.games]
    /\ latest' = [latest EXCEPT !["elo"] = FileName("elo", now)]
    /\ UNCHANGED <<dir_exists, files, MIN_ROW_COUNT, now, fetch,
                   finished, top>>
    /\ UNCHANGED <<reconciler, pipeline>>

\* line 177: the rows after the sample are games of one row, which give no
\* record
MainProcess ==
    /\ main.pc = "process"
    /\ LET out == process_nbaallelo_to_games(main.df.sample) IN
          main' =
              IF out.raised
              THEN [main EXCEPT !.pc = "except", !.exc = "ValueError"]
              ELSE [main EXCEPT !.pc = "save", !.games_df = out.games]
    /\ UNCHANGED <<dir_exists, files, latest, MIN_ROW_COUNT, now, fetch,
                   finished, top>>
    /\ UNCHANGED <<reconciler, pipeline>>

\* lines 180-184
MainSaveGames ==
    /\ main.pc = "save"
    /\ files' = write_file(files, FileName("elo", now),
                           GamesFile(main.games_df))
    /\ main' = [main EXCEPT !.pc = "link",
                            !.games_filename = FileName("elo", now)]
    /\ UNCHANGED <<dir_exists, latest, MIN_ROW_COUNT, now, fetch, finished,
                   top>>
    /\ UNCHANGED <<reconciler, pipeline>>

\* lines 187-191
MainLinkGames ==
    /\ main.pc = "link"
    /\ IF is_symlink(latest, "elo") /\ ~link_exists(latest, files, "elo")
       THEN /\ main' = [main EXCEPT !.pc = "except",
                                    !.exc = "FileExistsError"]
            /\ UNCHANGED latest
       ELSE /\ latest' = [latest EXCEPT !["elo"] = main.games_filename]
            /\ main' = [main EXCEPT !.pc = "success"]
    /\ UNCHANGED <<dir_exists, files, MIN_ROW_COUNT, now, fetch, finished,
                   top>>
    /\ UNCHANGED <<reconciler, pipeline>>

\* lines 193-194 and the end of main: success is printed, main returns
MainSuccess ==
    /\ main.pc = "success"
    /\ main' = [main EXCEPT !.pc = "off", !.success = TRUE]
    /\ finished' = Result("main", "returned", "none", NoFile, -1)
    /\ UNCHANGED <<dir_exists, files, latest, MIN_ROW_COUNT, now, fetch, top>>
    /\ UNCHANGED <<reconciler, pipeline>>

\* a handler that prints the failure and lets main return
MainExceptReturns ==
    /\ main.pc = "except"
    /\ main' = [main EXCEPT !.pc = "off"]
    /\ finished' = Result("main", "returned", "none", NoFile, -1)
    /\ UNCHANGED <<dir_exists, files, latest, MIN_ROW_COUNT, now, fetch, top>>
    /\ UNCHANGED <<reconciler, pipeline>>

\* lines 196-198: sys.exit(1)
MainExcept ==
    /\ main.pc = "except"
    /\ main' = [main EXCEPT !.pc = "off", !.exit = 1]
    /\ finished' = Result("main", "exit", "SystemExit", NoFile, 1)
    /\ UNCHANGED <<dir_exists, files, latest, MIN_ROW_COUNT, now, fetch, top>>
    /\ UNCHANGED <<reconciler, pipeline>>

NextScript ==
    \/ Tick
    \/ Monkeypatch
    \/ RemoveSnapshot
    \/ CallEnsureDirectory
    \/ CallValidate
    \/ CallFetch
    \/ FetchRequest
    \/ FetchParse
    \/ FetchValidate
    \/ FetchSave
    \/ FetchLink
    \/ FetchReturn
    \/ FetchReraise
    \/ CallMain
    \/ MainEnsureDirectory
    \/ MainCallFetch
    \/ MainReadCsv
    \/ MainProcess
    \/ MainSaveGames
    \/ MainLinkGames
    \/ MainSuccess
    \/ MainExcept

SpecScript == InitScript /\ [][NextScript]_vars

-----------------------------------------------------------------------------
(* load_duckdb: get_connection *)

InitConn ==
    /\ ReconcilerAtRest
    /\ ScriptAtRest
    /\ OrchestrationAtRest
    /\ WAREHOUSE \in Warehouses
    /\ latest_csv = [t \in RawTables |-> NoCsv]
    /\ tables = [t \in RawTables |-> NoTable]
    /\ load = LoadOff
    /\ conn = NoConn
    /\ loads = 0

\* test_load_duckdb.py lines 83 and 96: the attribute of the module is set
SetWarehouse ==
    /\ \E w \in Warehouses \ {WAREHOUSE} : WAREHOUSE' = w
    /\ UNCHANGED <<latest_csv, tables, load, conn, loads>>
    /\ UNCHANGED <<reconciler, script, orchestration>>

\* lines 29-35, called from outside
CallGetConnection ==
    /\ loads < MaxLoads
    /\ loads' = loads + 1
    /\ conn' = get_connection(WAREHOUSE, conn.opened)
    /\ UNCHANGED <<WAREHOUSE, latest_csv, tables, load>>
    /\ UNCHANGED <<reconciler, script, orchestration>>

NextConn == SetWarehouse \/ CallGetConnection

SpecConn == InitConn /\ [][NextConn]_vars

-----------------------------------------------------------------------------
(* load_duckdb: load_elo_data and load_nbaallelo_data *)

\* the row that a run before this one left in a table
OldRow == CsvRow(9, "OLD", "OLD")

InitLoad ==
    /\ ReconcilerAtRest
    /\ ScriptAtRest
    /\ OrchestrationAtRest
    /\ WAREHOUSE = DUCKDB
    /\ latest_csv \in [RawTables -> CsvFiles \cup {NoCsv}]
    /\ tables \in [RawTables -> {NoTable, Table(<<OldRow>>)}]
    /\ load = LoadOff
    /\ conn = NoConn
    /\ loads = 0

\* lines 44-46 and 94-96: a load function is called with a connection to a
\* database that has the schema raw
CallLoad ==
    /\ load.pc = "off"
    /\ loads < MaxLoads
    /\ loads' = loads + 1
    /\ \E t \in RawTables :
          load' = [LoadOff EXCEPT !.pc = "exists", !.table = t,
                                  !.tables_before = tables]
    /\ UNCHANGED <<WAREHOUSE, latest_csv, tables, conn>>
    /\ UNCHANGED <<reconciler, script, orchestration>>

\* a load that drops the table before it looks for the file
LoadExistsAfterDrop ==
    /\ load.pc = "exists"
    /\ load' =
          IF latest_csv[load.table] = NoCsv
          THEN [load EXCEPT !.pc = "off", !.exc = "FileNotFoundError",
                            !.outcome = "raised"]
          ELSE [load EXCEPT !.pc = "drop", !.csv = latest_csv[load.table]]
    /\ tables' = [tables EXCEPT ![load.table] = NoTable]
    /\ UNCHANGED <<WAREHOUSE, latest_csv, conn, loads>>
    /\ UNCHANGED <<reconciler, script, orchestration>>

\* lines 47-48 and 97-98
LoadExists ==
    /\ load.pc = "exists"
    /\ load' =
          IF latest_csv[load.table] = NoCsv
          THEN [load EXCEPT !.pc = "off", !.exc = "FileNotFoundError",
                            !.outcome = "raised"]
          ELSE [load EXCEPT !.pc = "drop", !.csv = latest_csv[load.table]]
    /\ UNCHANGED <<WAREHOUSE, latest_csv, tables, conn, loads>>
    /\ UNCHANGED <<reconciler, script, orchestration>>

\* lines 53 and 103: DROP TABLE IF EXISTS
LoadDrop ==
    /\ load.pc = "drop"
    /\ tables' = [tables EXCEPT ![load.table] = NoTable]
    /\ load' = [load EXCEPT !.pc = "create",
                            !.statements = load.statements + 1]
    /\ UNCHANGED <<WAREHOUSE, latest_csv, conn, loads>>
    /\ UNCHANGED <<reconciler, script, orchestration>>

\* lines 56-74 and 106-126: CREATE TABLE, which fails on a table that exists
LoadCreate ==
    /\ load.pc = "create"
    /\ IF tables[load.table].exists
       THEN /\ load' = [load EXCEPT !.pc = "off", !.exc = "CatalogException",
                                    !.outcome = "raised"]
            /\ UNCHANGED tables
       ELSE /\ tables' = [tables EXCEPT ![load.table] = Table(<<>>)]
            /\ load' = [load EXCEPT !.pc = "copy",
                                    !.statements = load.statements + 1]
    /\ UNCHANGED <<WAREHOUSE, latest_csv, conn, loads>>
    /\ UNCHANGED <<reconciler, script, orchestration>>

\* lines 77-80 and 129-132: COPY, which fails on a file that does not fit
\* the columns
LoadCopy ==
    /\ load.pc = "copy"
    /\ IF ~load.csv.fits
       THEN /\ load' = [load EXCEPT !.pc = "off",
                                    !.exc = "ConversionException",
                                    !.outcome = "raised"]
            /\ UNCHANGED tables
       ELSE /\ \E quoted_nulls \in BOOLEAN :
                  tables' = [tables EXCEPT ![load.table] =
                      Table(tables[load.table].rows
                            \o copy_from(load.csv, quoted_nulls))]
            /\ load' = [load EXCEPT !.pc = "update",
                                    !.statements = load.statements + 1]
    /\ UNCHANGED <<WAREHOUSE, latest_csv, conn, loads>>
    /\ UNCHANGED <<reconciler, script, orchestration>>

\* lines 83-92 and 135-144: the count is printed, the codes are cleaned, and
\* the function returns
LoadUpdate ==
    /\ load.pc = "update"
    /\ tables' = [tables EXCEPT ![load.table] =
                     Table(update_unk(tables[load.table].rows))]
    /\ load' = [load EXCEPT !.pc = "off", !.outcome = "returned",
                            !.statements = load.statements + 1]
    /\ UNCHANGED <<WAREHOUSE, latest_csv, conn, loads>>
    /\ UNCHANGED <<reconciler, script, orchestration>>

NextLoad ==
    \/ CallLoad
    \/ LoadExists
    \/ LoadDrop
    \/ LoadCreate
    \/ LoadCopy
    \/ LoadUpdate

SpecLoad == InitLoad /\ [][NextLoad]_vars

-----------------------------------------------------------------------------
(* The DAG run: the scheduler and the seven tasks *)

InitDag ==
    /\ ReconcilerAtRest
    /\ ScriptAtRest
    /\ LoaderAtRest
    /\ DagAtRest
    /\ ExporterAtRest
    /\ PagerAtRest

\* states in which a task instance has ended
Finished == {"success", "failed", "upstream_failed"}

\* the trigger rule of t is met by the states of its upstream tasks
ready(t) ==
    IF trigger_rule(t) = "all_done"
    THEN \A u \in upstream(t) : ti[u].state \in Finished
    ELSE \A u \in upstream(t) : ti[u].state = "success"

\* the scheduler starts a task, for the first time or after a failed try
StartTask ==
    /\ \E t \in Tasks :
          /\ ti[t].state \in {"none", "up_for_retry"}
          /\ ready(t)
          /\ ti' = [ti EXCEPT ![t] = [state |-> "running",
                                      try_number |-> ti[t].try_number + 1]]
          /\ started' = IF ti[t].state = "none" THEN Append(started, t)
                        ELSE started
    /\ UNCHANGED dag_run
    /\ UNCHANGED <<reconciler, script, loader, exporting, pager>>

\* the command or callable of the task ends with success
TaskSucceeds ==
    /\ \E t \in Tasks :
          /\ ti[t].state = "running"
          /\ ti' = [ti EXCEPT ![t].state = "success"]
    /\ UNCHANGED <<dag_run, started>>
    /\ UNCHANGED <<reconciler, script, loader, exporting, pager>>

\* the command or callable of the task fails: the task is tried again while
\* it has retries left (line 30)
TaskFails ==
    /\ \E t \in Tasks :
          /\ ti[t].state = "running"
          /\ ti' = [ti EXCEPT ![t].state =
                       IF ti[t].try_number <= retries THEN "up_for_retry"
                       ELSE "failed"]
    /\ UNCHANGED <<dag_run, started>>
    /\ UNCHANGED <<reconciler, script, loader, exporting, pager>>

\* a task with the rule all_success whose upstream task has failed, or was
\* not run for this reason, is not run
UpstreamFailed ==
    /\ \E t \in Tasks :
          /\ ti[t].state = "none"
          /\ trigger_rule(t) = "all_success"
          /\ \E u \in upstream(t) : ti[u].state \in {"failed", "upstream_failed"}
          /\ ti' = [ti EXCEPT ![t].state = "upstream_failed"]
    /\ UNCHANGED <<dag_run, started>>
    /\ UNCHANGED <<reconciler, script, loader, exporting, pager>>

\* line 42: the next run of the schedule, after the run has ended
NextDagRun ==
    /\ \A t \in Tasks : ti[t].state \in Finished
    /\ dag_run < MaxDagRuns
    /\ dag_run' = dag_run + 1
    /\ ti' = [t \in Tasks |-> NoTi]
    /\ started' = <<>>
    /\ UNCHANGED <<reconciler, script, loader, exporting, pager>>

NextDag ==
    \/ StartTask
    \/ TaskSucceeds
    \/ TaskFails
    \/ UpstreamFailed
    \/ NextDagRun

SpecDag == InitDag /\ [][NextDag]_vars

-----------------------------------------------------------------------------
(* export_metrics.main *)

InitExport ==
    /\ ReconcilerAtRest
    /\ ScriptAtRest
    /\ LoaderAtRest
    /\ DagAtRest
    /\ ExporterAtRest
    /\ PagerAtRest

\* between two runs a timestamped export is deleted; a link that points to
\* it stays and dangles
RemoveExport ==
    /\ exporter.pc = "off"
    /\ \E f \in export_files : export_files' = export_files \ {f}
    /\ UNCHANGED <<export_latest, exporter>>
    /\ UNCHANGED <<reconciler, script, loader, dagrun, pager>>

\* lines 196-200: main is called
CallExportMain ==
    /\ exporter.pc = "off"
    /\ exporter.run < MaxExportRuns
    /\ exporter' = [ExporterOff EXCEPT !.pc = "ensure",
                                       !.run = exporter.run + 1,
                                       !.latest_before = export_latest]
    /\ UNCHANGED <<export_files, export_latest>>
    /\ UNCHANGED <<reconciler, script, loader, dagrun, pager>>

\* line 202
ExportEnsureDirectory ==
    /\ exporter.pc = "ensure"
    /\ exporter' = [exporter EXCEPT !.pc = "connect"]
    /\ UNCHANGED <<export_files, export_latest>>
    /\ UNCHANGED <<reconciler, script, loader, dagrun, pager>>

\* line 206: get_connection, which raises when the database cannot be opened
ExportConnect ==
    /\ exporter.pc = "connect"
    /\ \E opens \in BOOLEAN :
          exporter' = IF opens
                      THEN [exporter EXCEPT !.pc = "export"]
                      ELSE [exporter EXCEPT !.pc = "except",
                                            !.escaped = "get_connection"]
    /\ UNCHANGED <<export_files, export_latest>>
    /\ UNCHANGED <<reconciler, script, loader, dagrun, pager>>

\* lines 208-210: the next of the three exports is called; what it returns
\* is dropped
ExportNext ==
    /\ exporter.pc = "export"
    /\ \E event \in ExportEvents :
          LET e == ExportOrder[exporter.next]
              r == export(e, exporter.run, event, export_files, export_latest)
          IN /\ export_files' = r.files
             /\ export_latest' = r.latest
             /\ exporter' = [exporter EXCEPT
                               !.returned[e] = r.df,
                               !.next = exporter.next + 1,
                               !.pc = IF exporter.next = Len(ExportOrder)
                                      THEN "summary" ELSE "export"]
    /\ UNCHANGED <<reconciler, script, loader, dagrun, pager>>

\* line 213: create_export_summary, which raises when the summary cannot be
\* written (lines 191-193)
ExportSummary ==
    /\ exporter.pc = "summary"
    /\ \E written \in BOOLEAN :
          exporter' = IF written
                      THEN [exporter EXCEPT !.pc = "success", !.summary = TRUE]
                      ELSE [exporter EXCEPT !.pc = "except",
                                            !.escaped = "create_export_summary"]
    /\ UNCHANGED <<export_files, export_latest>>
    /\ UNCHANGED <<reconciler, script, loader, dagrun, pager>>

\* lines 215-216 and the end of main
ExportSuccess ==
    /\ exporter.pc = "success"
    /\ exporter' = [exporter EXCEPT !.pc = "off", !.success = TRUE]
    /\ UNCHANGED <<export_files, export_latest>>
    /\ UNCHANGED <<reconciler, script, loader, dagrun, pager>>

\* lines 218-221: sys.exit(1)
ExportExcept ==
    /\ exporter.pc = "except"
    /\ exporter' = [exporter EXCEPT !.pc = "off", !.exit = 1]
    /\ UNCHANGED <<export_files, export_latest>>
    /\ UNCHANGED <<reconciler, script, loader, dagrun, pager>>

NextExport ==
    \/ RemoveExport
    \/ CallExportMain
    \/ ExportEnsureDirectory
    \/ ExportConnect
    \/ ExportNext
    \/ ExportSummary
    \/ ExportSuccess
    \/ ExportExcept

SpecExport == InitExport /\ [][NextExport]_vars

-----------------------------------------------------------------------------
(* fetch_nba_api.fetch_games *)

InitGames ==
    /\ ReconcilerAtRest
    /\ ScriptAtRest
    /\ LoaderAtRest
    /\ DagAtRest
    /\ ExporterAtRest
    /\ PagerAtRest

\* lines 59-65: fetch_games is called
CallFetchGames ==
    /\ pager.pc \in {"off", "done", "raised"}
    /\ pager.calls < MaxPagerCalls
    /\ pager' = [PagerOff EXCEPT !.pc = "request",
                                 !.calls = pager.calls + 1]
    /\ UNCHANGED <<reconciler, script, loader, dagrun, exporting>>

\* lines 67-112, one turn of the loop: the page is requested; an error is
\* raised again, an empty page ends the loop, the games of the page are
\* appended, and the loop ends when the API says that this was the last
\* page. Pages from MaxPage on are counted as MaxPage and their games are
\* left out.
GamesRequest ==
    /\ pager.pc = "request"
    /\ \E r \in ApiResponses(pager.page) :
          LET beyond == pager.page = MaxPage
                        /\ Len(pager.requested) >= MaxPage
              asked == IF beyond THEN pager.requested
                       ELSE Append(pager.requested, pager.page)
          IN pager' =
                IF r.kind # "ok"
                THEN [pager EXCEPT !.pc = "raised", !.exc = r.kind,
                                   !.requested = asked, !.odd = ~pager.odd]
                ELSE IF r.data = <<>>
                THEN [pager EXCEPT !.pc = "frame", !.requested = asked,
                                   !.odd = ~pager.odd]
                ELSE [pager EXCEPT
                        !.requested = asked,
                        !.odd = ~pager.odd,
                        !.games = IF beyond THEN pager.games
                                  ELSE pager.games \o page_games(r.data),
                        !.pc = IF r.current_page >= r.total_pages
                               THEN "frame" ELSE "request",
                        !.page = IF r.current_page >= r.total_pages
                                    \/ pager.page = MaxPage
                                 THEN pager.page ELSE pager.page + 1]
    /\ UNCHANGED <<reconciler, script, loader, dagrun, exporting>>

\* lines 114-116
GamesReturn ==
    /\ pager.pc = "frame"
    /\ pager' = [pager EXCEPT !.pc = "done"]
    /\ UNCHANGED <<reconciler, script, loader, dagrun, exporting>>

NextGames == CallFetchGames \/ GamesRequest \/ GamesReturn

SpecGames == InitGames /\ [][NextGames]_vars

\* a call that was made goes on: the process runs and the API answers
SpecGamesFair ==
    SpecGames /\ WF_vars(GamesRequest) /\ WF_vars(GamesReturn)

TypeOK ==
    /\ pc \in {"start", "loop", "done", "raised"}
    /\ Len(input) <= MaxRows + 1
    /\ Len(df) = Len(input)
    /\ 2 * Len(games) <= Len(input)

-----------------------------------------------------------------------------
(* Vocabulary of the properties *)

\* the call has ended
Ended == pc \in {"done", "raised"}

\* what the caller sees of the call
Outcome ==
    [raised |-> pc = "raised",
     games  |-> IF pc = "raised" THEN <<>> ELSE games]

\* the rows of game k in the order of the caller's frame
InputGroup(k) == SelectSeq(input, LAMBDA r : r.game_id = k)

InputIds == {input[i].game_id : i \in 1..Len(input)}

\* the games with exactly two rows
ValidIds == {k \in InputIds : Len(InputGroup(k)) = 2}

\* the loop body has just chosen home_row and away_row among the two rows
\* of the current group
Oriented == pc # "start" /\ Len(group) = 2

\* the last record of games is the record of the current group
Emitted == Oriented /\ pc \in {"loop", "done"}

LastGame == games[Len(games)]

\* the two rows of the current group in the order of the caller's frame
InRow1 == InputGroup(group[1].game_id)[1]
InRow2 == InputGroup(group[1].game_id)[2]

\* the run of the actions computes the function
RunIsFunction == Ended => Outcome = process_nbaallelo_to_games(input)

-----------------------------------------------------------------------------
(* C1 - C10 *)

\* C1: for every input the call returns, and its output has exactly one
\* record per game_id with exactly two rows and none for the other ids, so
\* the number of records is the number of such ids.
C1_PairingComplete ==
    Ended => pc = "done" /\ Len(games) = Cardinality(ValidIds)

\* C2: score1 is the own score parsed from the home row's result and score2
\* is the own score parsed from the away row's result.
C2_ScoresFromOwnRows ==
    Emitted =>
        /\ LastGame.score1 = home_scores[1]
        /\ LastGame.score2 = away_scores[1]

C4_ParserNeverRaises ==
    /\ pc # "raised"
    /\ Emitted =>
          /\ home_row.game_result \notin WellFormedResults
                 => home_scores = <<None, None>>
          /\ away_row.game_result \notin WellFormedResults
                 => away_scores = <<None, None>>

\* the record of the group when every malformed result string is replaced
\* by a well-formed one
WithResult(row, r) == [row EXCEPT !.game_result = r]

Repaired(row) ==
    IF row.game_result \in WellFormedResults THEN row
    ELSE WithResult(row, R_L_107_119)

\* all fields but the two scores
SameButScores(a, b) ==
    [a EXCEPT !.score1 = None, !.score2 = None]
        = [b EXCEPT !.score1 = None, !.score2 = None]

\* C5: a two-row group with a malformed home or away result still gives its
\* record: the call does not fail, the affected score is null and the other
\* fields are those the record has with a well-formed result.
C5_MalformedResultKeepsRecord ==
    (Oriented /\ (\/ home_row.game_result \notin WellFormedResults
                  \/ away_row.game_result \notin WellFormedResults))
        => /\ Emitted
           /\ home_row.game_result \notin WellFormedResults
                  => LastGame.score1 = None
           /\ away_row.game_result \notin WellFormedResults
                  => LastGame.score2 = None
           /\ SameButScores(LastGame,
                            game_of(<<Repaired(home_row),
                                      Repaired(away_row)>>))

\* C6: when exactly one row of a two-row group has location H, that row is
\* the home row: team1 is its franchise and team2 the other row's,
\* whichever of the two comes first in the input.
C6_HRowIsHome ==
    (Oriented /\ (InRow1.game_location = "H") # (InRow2.game_location = "H"))
        => LET h == IF InRow1.game_location = "H" THEN InRow1 ELSE InRow2
               o == IF InRow1.game_location = "H" THEN InRow2 ELSE InRow1
           IN /\ home_row = h
              /\ away_row = o
              /\ Emitted => /\ LastGame.team1 = h.franch_id
                            /\ LastGame.team2 = o.franch_id

\* the H row is second in the input, after an N row of another team, and
\* is team1 of the record
C6_Witness ==
    /\ Emitted
    /\ InRow1.game_location = "N" /\ InRow2.game_location = "H"
    /\ InRow1.franch_id = "DEN" /\ InRow2.franch_id = "LAL"
    /\ LastGame.team1 = "LAL" /\ LastGame.team2 = "DEN"

\* the frame with the rows at positions i and j exchanged
Swapped(d, i, j) == [d EXCEPT ![i] = d[j], ![j] = d[i]]

\* positions i < j hold the two rows of a game, one H and one A
IsHomeAwayPair(d, i, j) ==
    /\ i < j
    /\ d[i].game_id = d[j].game_id
    /\ Len(SelectSeq(d, LAMBDA r : r.game_id = d[i].game_id)) = 2
    /\ {d[i].game_location, d[j].game_location} = {"H", "A"}

\* C7: exchanging, in the input, the two rows of a two-row group with
\* locations H and A leaves the outcome of the call the same, record by
\* record and field by field.
C7_SwapInvariant ==
    Ended =>
        \A i, j \in 1..Len(input) :
            IsHomeAwayPair(input, i, j)
                => process_nbaallelo_to_games(Swapped(input, i, j)) = Outcome

\* the call returned one record for an input whose A row precedes its H row
C7_Witness ==
    /\ pc = "done"
    /\ Len(input) = 2
    /\ IsHomeAwayPair(input, 1, 2)
    /\ input[1].game_location = "A"
    /\ input[1].franch_id # input[2].franch_id
    /\ Len(games) = 1
    /\ games[1].team1 = input[2].franch_id

\* the input without the rows of the games that do not have two rows
OnlyValid(d) ==
    SelectSeq(d, LAMBDA r :
        Len(SelectSeq(d, LAMBDA q : q.game_id = r.game_id)) = 2)

ValidIdSeq == SortedKeys(ValidIds)

\* C8: groups that do not have two rows raise nothing and change nothing:
\* the outcome is the outcome for the input without their rows, an error
\* comes from a result of a two-row group, and the record of each two-row
\* group is the record the call gives for that group alone.
C8_InvalidGroupsIgnored ==
    /\ Ended => Outcome = process_nbaallelo_to_games(OnlyValid(input))
    /\ pc = "raised" =>
          \E k \in ValidIds : \E i \in 1..2 :
              InputGroup(k)[i].game_result \in RaisingResults
    /\ pc = "done" =>
          /\ Len(games) = Len(ValidIdSeq)
          /\ \A n \in 1..Len(games) :
                <<games[n]>> =
                    process_nbaallelo_to_games(InputGroup(ValidIdSeq[n])).games

\* the call returned one record for an input with a two-row game and the
\* single row of another game, whose result would raise
C8_Witness ==
    /\ pc = "done"
    /\ Len(input) = 3
    /\ Cardinality(ValidIds) = 1
    /\ \E i \in 1..3 : /\ input[i].game_id \notin ValidIds
                       /\ input[i].game_result \in RaisingResults
    /\ Len(games) = 1

\* decimal digits of a natural number
RECURSIVE Decimal(_)
Decimal(n) ==
    IF n < 10 THEN <<Digits[n + 1]>>
    ELSE Decimal(n \div 10) \o <<Digits[(n % 10) + 1]>>

\* the string "<c> <a>-<b>"
ResultString(c, a, b) == <<c, " ">> \o Decimal(a) \o <<"-">> \o Decimal(b)

Scores == {0, 7, 12, 107, 119, 120}

ParsedAs(result, scores) ==
    \A c \in {"W", "L"} : \A a, b \in Scores :
        result = ResultString(c, a, b) => scores = <<Some(a), Some(b)>>

\* C9: a result "<W|L> <a>-<b>" is parsed as (a, b), in this order, for W
\* and for L.
C9_ParsesOwnThenOpponent ==
    Emitted => /\ ParsedAs(home_row.game_result, home_scores)
               /\ ParsedAs(away_row.game_result, away_scores)

\* "L 107-119" and "W 119-107" were parsed in one group
C9_Witness ==
    /\ Emitted
    /\ home_row.game_result = ResultString("L", 107, 119)
    /\ away_row.game_result = ResultString("W", 119, 107)
    /\ home_scores = <<Some(107), Some(119)>>
    /\ away_scores = <<Some(119), Some(107)>>

\* s is the season of the date: the date's year from October to December,
\* the year before from January to September
IsSeasonOf(s, date) ==
    \E y \in 2020..2029, m \in 1..12 :
        /\ date - (y * 10000 + m * 100) \in 1..31
        /\ s = IF m \in 10..12 THEN y ELSE y - 1

\* C10: the record has the home row's date, and its season is the year of
\* that date from October to December and the year before from January to
\* September.
C10_SeasonOfHomeDate ==
    Emitted =>
        /\ LastGame.date = home_row.date
        /\ IsSeasonOf(LastGame.season, home_row.date)
        /\ home_row.date = 20230930 => LastGame.season = 2022
        /\ home_row.date = 20231001 => LastGame.season = 2023
        /\ home_row.date = 20240615 => LastGame.season = 2023

\* a record of a September home row whose away row has an October date
C10_Witness ==
    /\ Emitted
    /\ home_row.date = 20230930
    /\ away_row.date = 20231001
    /\ LastGame.date = 20230930
    /\ LastGame.season = 2022

-----------------------------------------------------------------------------
(* C11 - C15 *)

\* the two rows of the end-to-end example, the home row first
ExampleInput ==
    <<Row(1, 20231024, LAL, "H", R_L_107_119, NaN),
      Row(1, 20231024, DEN, "A", R_W_119_107, NaN)>>

\* C11: the fields of team1 are all read from the home row and those of
\* team2 from the away row; the LAL (H) / DEN (A) example gives team1 LAL,
\* team2 DEN, season 2023, not neutral, scores 107 and 119, pre-game ratings
\* 1500 and 1600, post-game ratings 1485.2 and 1614.8.
C11_TeamFieldsFromOneRow ==
    /\ Emitted =>
          /\ LastGame.team1 = home_row.franch_id
          /\ LastGame.elo1_pre = home_row.elo_i
          /\ LastGame.elo_prob1 = home_row.forecast
          /\ LastGame.elo1_post = home_row.elo_n
          /\ LastGame.team2 = away_row.franch_id
          /\ LastGame.elo2_pre = away_row.elo_i
          /\ LastGame.elo_prob2 = away_row.forecast
          /\ LastGame.elo2_post = away_row.elo_n
    /\ (pc = "done" /\ input = ExampleInput) =>
          /\ Len(games) = 1
          /\ games[1].team1 = "LAL" /\ games[1].team2 = "DEN"
          /\ games[1].season = 2023 /\ games[1].neutral = 0
          /\ games[1].score1 = Some(107) /\ games[1].score2 = Some(119)
          /\ games[1].elo1_pre = 15000 /\ games[1].elo2_pre = 16000
          /\ games[1].elo1_post = 14852 /\ games[1].elo2_post = 16148

\* the call on the example has returned its record
C11_Witness ==
    /\ pc = "done"
    /\ input = ExampleInput
    /\ Len(games) = 1
    /\ games[1].team1 = "LAL" /\ games[1].elo2_post = 16148

\* C12: the record is neutral (1) exactly when the home row's location is
\* N: never when one of the two rows is marked H, always when both are N.
C12_NeutralIffHomeRowN ==
    Emitted =>
        /\ LastGame.neutral = 1 <=> home_row.game_location = "N"
        /\ LastGame.neutral \in {0, 1}
        /\ "H" \in {InRow1.game_location, InRow2.game_location}
               => LastGame.neutral = 0
        /\ (InRow1.game_location = "N" /\ InRow2.game_location = "N")
               => LastGame.neutral = 1

\* a record that is not neutral although the away row is marked N
C12_Witness ==
    /\ Emitted
    /\ home_row.game_location = "H"
    /\ away_row.game_location = "N"
    /\ LastGame.neutral = 0

\* the notes that name a playoff game
PlayoffNotes == {N_2023_Playoff_Game, N_PLAYOFF}

\* C13: the record is a playoff game (1) exactly when the home row's notes
\* contain "playoff" in any case; missing notes give 0, and the away row's
\* notes play no part.
C13_PlayoffFromHomeNotes ==
    Emitted =>
        /\ LastGame.playoff = IF home_row.notes \in PlayoffNotes THEN 1 ELSE 0
        /\ home_row.notes = NaN => LastGame.playoff = 0

\* a record of a home row noted "PLAYOFF" and an away row without a playoff
\* note
C13_Witness ==
    /\ Emitted
    /\ home_row.notes = N_PLAYOFF
    /\ away_row.notes = N_Regular
    /\ LastGame.playoff = 1

C15_NoStateNoInputChange ==
    /\ [][calls' = calls => input' = input]_vars
    /\ [](Ended => Outcome = process_nbaallelo_to_games(input))

\* a second call has returned a record for a frame that is not in sorted
\* order, after a first call on another frame that returned a record
C15_Witness ==
    /\ pc = "done"
    /\ calls = 2
    /\ prev.input # input
    /\ Len(prev.games) = 1
    /\ Len(games) = 1
    /\ df # input

-----------------------------------------------------------------------------
(* The script: properties *)

\* this step ends a call of fetch_and_save_csv made from outside
FetchEnds == fetch.pc # "off" /\ fetch'.pc = "off" /\ fetch.caller = "top"

\* the request of the running call succeeded with a CSV body of n rows,
\* n at least the threshold of the module as it is now
BodyAtThreshold ==
    /\ fetch.response.status = "ok"
    /\ len(fetch.response.body) >= MIN_ROW_COUNT

\* what the caller of fetch_and_save_csv has on success
FetchedAndLinked(res, fls, lnk, dataset_name) ==
    /\ res.fn = "fetch_and_save_csv"
    /\ res.kind = "returned"
    /\ \E t \in 0..MaxClock : res.value = FileName(dataset_name, t)
    /\ res.value \in DOMAIN fls
    /\ is_symlink(lnk, dataset_name)
    /\ link_exists(lnk, fls, dataset_name)

\* C16: when the request succeeds with a body of at least MIN_ROW_COUNT
\* rows, MIN_ROW_COUNT being what the module holds when the call is made,
\* and RAW_DATA_DIR is there, fetch_and_save_csv returns the path of a file
\* <name>_<timestamp>.csv that exists, and latest_<name>.csv exists and is a
\* link.
C16_FetchSucceedsAtThreshold ==
    [][(FetchEnds /\ BodyAtThreshold /\ dir_exists)
         => FetchedAndLinked(finished', files', latest', fetch.dataset)]_vars

\* C17: when its fetch succeeds, main has called ensure_directory once and
\* fetch_and_save_csv twice, and has returned without exiting.
C17_OneEnsureTwoFetches ==
    (finished.fn = "main" /\ fetch.outcome = "returned")
        => /\ main.ensure_calls = 1
           /\ main.fetch_calls = 2
           /\ finished.kind = "returned"

\* C18: validate_csv_content(df, expected_columns, min_rows) raises
\* ValueError exactly when df has fewer than min_rows rows, and returns True
\* in every other case, whatever columns df has.
C18_RaisesIffTooFewRows ==
    finished.fn = "validate_csv_content"
        => IF len(finished.frame) < finished.min_rows
           THEN finished.kind = "raised" /\ finished.exc = "ValueError"
           ELSE finished.kind = "returned" /\ finished.truth = TRUE

\* a frame with enough rows that lacks an expected column was validated:
\* True was returned after a warning
C18_Witness ==
    /\ finished.fn = "validate_csv_content"
    /\ len(finished.frame) >= finished.min_rows
    /\ finished.expected \ finished.frame.columns # {}
    /\ finished.kind = "returned"
    /\ finished.warned

\* the request, the parsing or the validation of the running call raised
RaisedEarly == fetch.raised_at \in {"request", "parse", "validate"}

\* C19: an exception raised by the request, by the parsing or by the
\* validation in fetch_and_save_csv reaches the caller as this exception:
\* the call does not return, and a call that returns had a response that
\* was parsed and validated.
C19_ExceptionsPropagate ==
    /\ [][(fetch.pc # "off" /\ fetch'.pc = "off" /\ RaisedEarly)
            => /\ fetch'.outcome = "raised"
               /\ IF fetch.caller = "top"
                  THEN finished'.kind = "raised" /\ finished'.exc = fetch.exc
                  ELSE main'.pc = "except" /\ main'.exc = fetch.exc]_vars
    /\ [](fetch.outcome = "returned"
            => /\ fetch.raised_at = "none"
               /\ fetch.response.status = "ok"
               /\ len(fetch.response.body) >= MIN_ROW_COUNT_import)
    /\ [](fetch.pc = "off" /\ fetch.exc # "none" => fetch.outcome = "raised")

\* a call from outside ended with the ValueError of the validation
C19_Witness ==
    /\ finished.fn = "fetch_and_save_csv"
    /\ finished.kind = "raised"
    /\ finished.exc = "ValueError"
    /\ fetch.raised_at = "validate"
    /\ fetch.response.status = "ok"

\* main has ended after an exception of its fetch, of read_csv or of
\* process_nbaallelo_to_games
MainFailed ==
    /\ finished.fn = "main"
    /\ \/ fetch.outcome = "raised"
       \/ main.exc # "none"
       \/ process_nbaallelo_to_games(fetch.response.body.sample).raised

\* C20: when the fetch, the loading or the processing raises in main, the
\* process ends with exit status 1 and success is not reported.
C20_FailureExitsWithOne ==
    MainFailed => /\ finished.kind = "exit"
                  /\ finished.code = 1
                  /\ main.exit = 1
                  /\ ~main.success

\* main has exited with 1 after its fetch returned and the processing raised
C20_Witness ==
    /\ finished.fn = "main"
    /\ fetch.outcome = "returned"
    /\ main.exc = "ValueError"
    /\ finished.kind = "exit"
    /\ finished.code = 1

\* main has exited with 1 after its fetch raised
C20_WitnessFetch ==
    /\ finished.fn = "main"
    /\ fetch.outcome = "raised"
    /\ main.exc = fetch.exc
    /\ finished.code = 1

-----------------------------------------------------------------------------
(* Order of the records *)

\* the record of the game k of the input
RecordOf(k) == process_nbaallelo_to_games(InputGroup(k)).games[1]

\* C24: the records come in ascending game_id order, whatever the order of
\* the rows of the input and whatever the dates of the games: the n-th record
\* is the record of the n-th smallest game_id among the games of two rows,
\* while the call runs and when it has returned.
C24_AscendingGameId ==
    /\ pc \in {"loop", "done"} =>
          /\ Len(games) <= Len(ValidIdSeq)
          /\ \A n \in 1..Len(games) : games[n] = RecordOf(ValidIdSeq[n])
    /\ pc = "done" => Len(games) = Cardinality(ValidIds)

\* a call returned two records for an input that has the rows of the larger
\* game_id first, the larger game_id being the earlier game
C24_Witness ==
    /\ pc = "done"
    /\ Len(games) = 2
    /\ input[1].game_id > input[Len(input)].game_id
    /\ games[1].date > games[2].date
    /\ games[1] # games[2]

-----------------------------------------------------------------------------
(* The files of RAW_DATA_DIR *)

\* the download and the validation of the running call have succeeded
PastValidation ==
    /\ fetch.pc \in {"save", "link", "return", "except"}
    /\ ~RaisedEarly

\* this step ends a call of fetch_and_save_csv, made from outside or by main
FetchCallEnds == fetch.pc # "off" /\ fetch'.pc = "off"

\* C25: a call of fetch_and_save_csv whose download and validation succeed,
\* RAW_DATA_DIR being there, ends with latest_<dataset>.csv pointing to the
\* file that the call wrote, whether the link was absent, pointed to an
\* earlier snapshot or dangled before the call.
C25_LatestPointsToWritten ==
    [][(FetchCallEnds /\ PastValidation /\ dir_exists)
         => /\ fetch'.outcome = "returned"
            /\ fetch.filename = FileName(fetch.dataset, now)
            /\ fetch.filename \in DOMAIN files'
            /\ files'[fetch.filename] = FrameFile(fetch.df)
            /\ latest'[fetch.dataset] = fetch.filename]_vars

\* C26: a call of fetch_and_save_csv that fails in the request, in the
\* parsing or in the validation ends with the files of RAW_DATA_DIR and the
\* latest_ links as they were when it was called.
C26_EarlyFailureChangesNothing ==
    [][(FetchCallEnds /\ RaisedEarly)
         => /\ fetch'.outcome = "raised"
            /\ files' = fetch.files_before
            /\ latest' = fetch.latest_before]_vars

\* a call from outside failed in the validation while latest_<dataset>.csv
\* pointed to a snapshot of an earlier call, and it still does
C26_Witness ==
    /\ finished.fn = "fetch_and_save_csv"
    /\ finished.kind = "raised"
    /\ fetch.raised_at = "validate"
    /\ fetch.pc = "off"
    /\ fetch.latest_before[fetch.dataset] # NoFile
    /\ fetch.files_before # <<>>
    /\ files = fetch.files_before
    /\ latest = fetch.latest_before

\* the games file that reconciling the snapshot behind latest_nbaallelo.csv
\* gives
GamesOfLatest(fls, lnk) ==
    GamesFile(process_nbaallelo_to_games(
                  read_csv(fls[lnk["nbaallelo"]]).sample).games)

\* C27: when main ends with success, latest_elo.csv points to the games
\* file that this run wrote, which holds the records of the snapshot that
\* latest_nbaallelo.csv points to; main changes latest_elo.csv only in its
\* link step, after its fetch returned and the reconciliation gave these
\* records; a main that ends in its handler leaves latest_elo.csv as it was
\* when main was called.
C27_LatestEloFromThisRun ==
    /\ [][(main.pc = "success" /\ main'.pc = "off")
            => /\ main'.success
               /\ latest'["nbaallelo"] = main.nbaallelo_path
               /\ latest'["nbaallelo"] \in DOMAIN files'
               /\ latest'["elo"] = main.games_filename
               /\ latest'["elo"] \in DOMAIN files'
               /\ files'[latest'["elo"]] = GamesOfLatest(files', latest')]_vars
    /\ [][(main.pc \notin {"off", "in_fetch"}
           /\ latest'["elo"] # latest["elo"])
            => /\ main.pc = "link"
               /\ fetch.outcome = "returned"
               /\ fetch.caller = "main"
               /\ latest'["elo"] = main.games_filename
               /\ files[main.games_filename] = GamesOfLatest(files, latest)]_vars
    /\ [][(main.pc = "in_fetch" /\ fetch.caller = "main")
            => latest'["elo"] = latest["elo"]]_vars
    /\ [][(main.pc = "except" /\ main'.pc = "off")
            => latest'["elo"] = main.latest_before["elo"]]_vars

\* main ended with success while latest_elo.csv pointed to an older file
\* before: it points to the games file of this run now
C27_Witness ==
    /\ finished.fn = "main"
    /\ finished.kind = "returned"
    /\ main.success
    /\ main.latest_before["elo"] # NoFile
    /\ latest["elo"] = main.games_filename
    /\ latest["elo"] # main.latest_before["elo"]
    /\ latest["elo"] \in DOMAIN files
    /\ Len(files[latest["elo"]].games) = 1

-----------------------------------------------------------------------------
(* load_duckdb: properties *)

\* a and b are the same text when the case of the letters is ignored
SameIgnoringCase(a, b) == lower(a) = lower(b)

\* C21: get_connection returns a connection, opened by one duckdb.connect,
\* when WAREHOUSE is DUCKDB in any mix of cases; for every other value it
\* raises NotImplementedError with a message that has the value as it is
\* written, and opens nothing.
C21_DuckdbInAnyCase ==
    [][loads' = loads + 1
         => IF SameIgnoringCase(WAREHOUSE, DUCKDB)
            THEN /\ conn'.kind = "connection"
                 /\ conn'.opened = conn.opened + 1
            ELSE /\ conn'.kind = "raised"
                 /\ conn'.exc = "NotImplementedError"
                 /\ SubSeq(conn'.message, 2, Len(WAREHOUSE) + 1) = WAREHOUSE
                 /\ conn'.opened = conn.opened]_vars

\* after a call that opened a connection, a call with WAREHOUSE = MYSQL
\* raised with MYSQL in its message and opened nothing
C21_Witness ==
    /\ loads = 2
    /\ conn.kind = "raised"
    /\ contains(conn.message, MYSQL)
    /\ conn.opened = 1

\* the team code that a cell of the file stands for
Cleaned(cell) ==
    IF cell \in {EmptyCell, QuotedEmptyCell} THEN "UNK" ELSE cell

\* the rows of a file, with their team codes cleaned
CleanedRows(csv) ==
    [i \in 1..Len(csv.rows) |->
        CsvRow(csv.rows[i].gameorder, Cleaned(csv.rows[i].code1),
               Cleaned(csv.rows[i].code2))]

\* this step ends a call of a load function, which returns
LoadReturns == load.pc # "off" /\ load'.pc = "off" /\ load'.outcome = "returned"

\* C22: when a load function returns, its table holds the rows of
\* latest_<table>.csv with null and empty team codes replaced by 'UNK', in
\* the order of the file, whatever the table held before; the other table is
\* as it was; a table that held the rows of this file before holds them after.
C22_FullRefresh ==
    [][LoadReturns
         => /\ tables'[load.table] = Table(CleanedRows(latest_csv[load.table]))
            /\ \A t \in RawTables \ {load.table} :
                  tables'[t] = load.tables_before[t]
            /\ (load.tables_before[load.table]
                    = Table(CleanedRows(latest_csv[load.table]))
                => tables'[load.table] = load.tables_before[load.table])]_vars

\* the second load of a file with an empty and a quoted empty code has
\* returned: the table has the rows it had after the first load
C22_Witness ==
    /\ loads = 2
    /\ load.pc = "off"
    /\ load.outcome = "returned"
    /\ Len(load.csv.rows) = 2
    /\ \E i \in 1..2 : load.csv.rows[i].code1 = QuotedEmptyCell
    /\ \E i \in 1..2 : load.csv.rows[i].code1 = EmptyCell
    /\ load.tables_before[load.table] = Table(CleanedRows(load.csv))
    /\ tables[load.table] = load.tables_before[load.table]

\* C28: when latest_<table>.csv is missing, the load function raises
\* FileNotFoundError before it has executed any statement: both tables keep
\* the rows they had when the function was called.
C28_MissingFileTouchesNothing ==
    [][(load.pc = "exists" /\ latest_csv[load.table] = NoCsv)
         => /\ load'.pc = "off"
            /\ load'.outcome = "raised"
            /\ load'.exc = "FileNotFoundError"
            /\ load'.statements = 0
            /\ tables' = load.tables_before]_vars

\* load_nbaallelo_data raised FileNotFoundError while raw.nbaallelo had a
\* row, which it still has
C28_Witness ==
    /\ load.pc = "off"
    /\ load.table = "nbaallelo"
    /\ load.exc = "FileNotFoundError"
    /\ latest_csv["nbaallelo"] = NoCsv
    /\ tables["nbaallelo"] = Table(<<OldRow>>)
    /\ load.tables_before = tables

-----------------------------------------------------------------------------
(* The DAG run: properties *)

\* the order of the tasks of a run
TaskOrder ==
    <<"fetch_raw_data", "load_to_warehouse", "dbt_seed", "dbt_run",
      "dbt_test", "export_metrics", "success_notification">>

\* C23: in every run the tasks start in the order fetch_raw_data,
\* load_to_warehouse, dbt_seed, dbt_run, dbt_test, export_metrics,
\* success_notification; a task is started, also for a retry, only when the
\* task before it has succeeded, so no two tasks run at once; and
\* success_notification is never started in a run in which a task before it
\* has failed or was not run.
C23_LinearOrder ==
    /\ [](/\ Len(started) <= Len(TaskOrder)
          /\ started = SubSeq(TaskOrder, 1, Len(started)))
    /\ [][\A n \in 1..Len(TaskOrder) :
            (ti'[TaskOrder[n]].state = "running"
             /\ ti[TaskOrder[n]].state # "running")
              => \A m \in 1..(n - 1) : ti[TaskOrder[m]].state = "success"]_vars
    /\ [](Cardinality({t \in Tasks : ti[t].state = "running"}) <= 1)
    /\ []((\E t \in Tasks \ {"success_notification"} :
              ti[t].state \in {"failed", "upstream_failed", "up_for_retry"})
            => /\ ti["success_notification"].state \in {"none", "upstream_failed"}
               /\ ti["success_notification"].try_number = 0)

\* the second run has ended with success_notification succeeded after all
\* seven tasks started in order, export_metrics at its third try
C23_Witness ==
    /\ dag_run = 2
    /\ started = TaskOrder
    /\ ti["success_notification"].state = "success"
    /\ ti["export_metrics"].try_number = 3

\* a run has ended without success_notification: dbt_run failed after three
\* tries and the four tasks behind it were not run
C23_WitnessFailed ==
    /\ ti["dbt_run"].state = "failed"
    /\ ti["dbt_run"].try_number = 3
    /\ ti["success_notification"].state = "upstream_failed"
    /\ Len(started) = 4

-----------------------------------------------------------------------------
(* export_metrics: properties *)

-----------------------------------------------------------------------------
(* fetch_games: properties *)

\* C30: fetch_games ends, by returning or by raising, for every API whose
\* total_pages is finite.
C30_FetchGamesTerminates ==
    (pager.pc = "request") ~> (pager.pc \in {"done", "raised"})

====
